---- MODULE Spec2Model ----
(***************************************************************************)
(* Execution core of laminar: PromptInstance.run (tool-calling loop),      *)
(* Agent.run (retry / reflection state machine) and AgentWorkflow.run      *)
(* (steps of agents, fail-fast, status), with the events they publish.     *)
(* The model client, the hooks and the tool handlers are the environment:  *)
(* their answers are drawn from small sets at every call.                  *)
(***************************************************************************)
EXTENDS Integers, Sequences, FiniteSets, TLC

VARIABLES
  cfg,        \* the configuration objects handed to the constructors
  client,     \* the scripted model client: what it may still answer
  hooks,      \* the configured hooks, and how often they may still misbehave
  clientLog,  \* responses the client returned to the running PromptInstance
  events,     \* events delivered to the observer, in delivery order
  nextId,     \* generateId(): the next fresh id
  ppc,        \* PromptInstance.run: position
  pi,         \* PromptInstance: fields and locals of run
  presult,    \* PromptInstance.run: settled promise (result or rejection)
  apc,        \* Agent.run: position
  ag,         \* Agent: fields and locals of run
  aresult,    \* Agent.run: settled promise
  execLog,    \* PromptInstance constructions of the running agent
  wpc,        \* AgentWorkflow.run: position
  wf,         \* AgentWorkflow: locals of run / executeStep
  status,     \* Workflow.status
  wresult,    \* AgentWorkflow.run: settled promise
  cache       \* MemoryCache: the store, the clock, the last return value

vars == <<cfg, client, hooks, clientLog, events, nextId, ppc, pi, presult,
          apc, ag, aresult, execLog, wpc, wf, status, wresult, cache>>

envVars == <<cfg, client, hooks>>
agentVars == <<apc, ag, aresult, execLog>>
wfVars == <<wpc, wf, status, wresult>>

-----------------------------------------------------------------------------
(* Bounds of the model *)

MaxToolRounds == 2       \* tool_use answers given to a directly run prompt
MaxHookFaults == 1       \* misbehaving hook calls during one behaviour
MaxPrompts == 2          \* prompts of an agent
MaxRetries == 1          \* largest configured maxRetries
MaxFailures == MaxRetries + 2   \* failing model calls during a directly run agent
MaxAgentToolRounds == MaxToolRounds \div 2   \* tool_use answers given during an agent run
MaxSteps == 2            \* steps of a workflow
MaxAgents == 2           \* agents of a step
MaxWfFailures == 1       \* failing model calls during a workflow run
MaxRuns == 2             \* invocations of run on one workflow instance
MaxMutations == 2        \* assignments the caller attempts on a bound config

-----------------------------------------------------------------------------
(* Values *)

None == "none"                    \* undefined / null / absent
NoError == None

ApiError == "ApiError"            \* the model client rejected the call
HookError == "HookError"          \* a hook threw
HandlerError == "HandlerError"    \* a tool handler threw
UnknownTool == "UnknownTool"      \* new Error(`Unknown tool: ...`)
NoModelError == "NoModelConfigured"

\* A falsy value other than undefined that is thrown or rejected with:
\* null, '' or 0. The catch blocks store it in the error field as it is.
FalsyError == ""

\* JavaScript truthiness of an error value, as tested by `if (result.error)`.
Truthy(e) == e \notin {None, FalsyError}

\* Content blocks of a model response: a text block, or a tool_use block
\* named after the tool it requests.
TextBlock == "text"
ToolNames == {"lookup", "crash", "ghost"}
\* The tool-handler registry: "lookup" resolves, "crash" throws, "ghost" has
\* no handler.
Registered == {"lookup", "crash"}
HandlerThrows(name) == name = "crash"

isTextBlock(b) == b = TextBlock
isToolUseBlock(b) == b \in ToolNames

emptyTokenUsage == [inputTokens |-> 0, outputTokens |-> 0]

\* Usage reported by every model response.
ResponseUsage == [inputTokens |-> 1, outputTokens |-> 2]

\* The optional counters of a token usage.
CacheCounters == {"cacheCreationInputTokens", "cacheReadInputTokens"}

\* result[counter] = (result[counter] ?? 0) + usage[counter]
AddCounter(result, usage, counter) ==
  [field \in DOMAIN result \cup {counter} |->
     IF field # counter THEN result[field]
     ELSE (IF counter \in DOMAIN result THEN result[counter] ELSE 0) + usage[counter]]

\* if (usage[counter]) { ... }: undefined and 0 are both falsy.
AddIfTruthy(result, usage, counter) ==
  IF counter \in DOMAIN usage /\ usage[counter] # 0
  THEN AddCounter(result, usage, counter) ELSE result

\* One pass of the loop body of aggregateTokenUsage.
AddUsage(result, usage) ==
  LET summed == [result EXCEPT !.inputTokens = @ + usage.inputTokens,
                               !.outputTokens = @ + usage.outputTokens]
  IN AddIfTruthy(AddIfTruthy(summed, usage, "cacheCreationInputTokens"),
                 usage, "cacheReadInputTokens")

RECURSIVE AggregateFrom(_, _)
AggregateFrom(result, usages) ==
  IF usages = <<>> THEN result
  ELSE AggregateFrom(AddUsage(result, Head(usages)), Tail(usages))

aggregateTokenUsage(usages) == AggregateFrom(emptyTokenUsage, usages)

\* Final textual content: the text blocks of the last response.
TextContent(content) == SelectSeq(content, isTextBlock)

ToolUseBlocks(content) == SelectSeq(content, isToolUseBlock)

\* Observable.next / Workflow.emitEvent: synchronous delivery to the observer.
Publish(log, e) == Append(log, e)

Event(type, id) == <<type, id>>

-----------------------------------------------------------------------------
(* Template interpolation *)

\* Strings are sequences of characters; a character that stands for a longer
\* run of text (a word, a number's digits) is written as that text.
\* JavaScript values, as far as interpolate can tell them apart: t is the
\* tag, s the text of a string (or the digits of a number), p the own
\* properties of an object, a function from keys to values.
JsValue(t, str, props) == [t |-> t, s |-> str, p |-> props]
Undefined == JsValue("undefined", <<>>, <<>>)
Null == JsValue("null", <<>>, <<>>)
Str(str) == JsValue("string", str, <<>>)
Num(digits) == JsValue("number", digits, <<>>)
Fn == JsValue("function", <<>>, <<>>)
Obj(props) == JsValue("object", <<>>, props)

\* The input argument of a run.
RunInput == Obj([key \in {<<"topic">>} |-> Str(<<"x">>)])

\* typeof value
typeof(value) == IF value.t = "null" THEN "object" ELSE value.t

\* Truthiness of a value, as in `value && ...`.
IsTruthy(value) ==
  /\ value.t \notin {"undefined", "null"}
  /\ value.t = "string" => value.s # <<>>
  /\ value.t = "number" => value.s # <<"0">>

\* Properties every object literal inherits.
ObjectPrototype == [key \in {<<"constructor">>} |-> Fn]

\* key in value, for an object
In(key, value) == key \in DOMAIN value.p \/ key \in DOMAIN ObjectPrototype

\* value[key], for an object
Get(value, key) ==
  IF key \in DOMAIN value.p THEN value.p[key] ELSE ObjectPrototype[key]

\* String(value)
String(value) ==
  CASE value.t = "string" -> value.s
    [] value.t = "number" -> value.s
    [] value.t = "object" -> <<"[object Object]">>
    [] value.t = "function" -> <<"function Object() { [native code] }">>
    [] value.t = "null" -> <<"null">>
    [] OTHER -> <<"undefined">>

\* Variant: String(value || match)
StringOrMatch_Falsy(value, match) ==
  IF IsTruthy(value) THEN String(value) ELSE match

\* String(value ?? match)
StringOrMatch(value, match) ==
  IF value.t \in {"null", "undefined"} THEN match ELSE String(value)

\* String.prototype.trim
RECURSIVE trim(_)
trim(str) ==
  IF str = <<>> THEN <<>>
  ELSE IF Head(str) = " " THEN trim(Tail(str))
  ELSE IF str[Len(str)] = " " THEN trim(SubSeq(str, 1, Len(str) - 1))
  ELSE str

\* String.prototype.split('.')
RECURSIVE split(_)
split(str) ==
  LET dots == {k \in 1..Len(str) : str[k] = "."}
  IN IF dots = {} THEN <<str>>
     ELSE LET d == CHOOSE k \in dots : \A j \in dots : k <= j
          IN <<SubSeq(str, 1, d - 1)>> \o split(SubSeq(str, d + 1, Len(str)))

\* The for-loop over the keys in the replacer of interpolate, and its
\* return value.
RECURSIVE Walk(_, _, _)
Walk(value, keys, match) ==
  IF keys = <<>> THEN StringOrMatch(value, match)
  ELSE IF IsTruthy(value) /\ typeof(value) = "object" /\ In(Head(keys), value)
  THEN Walk(Get(value, Head(keys)), Tail(keys), match)
  ELSE match

\* Length of the match of /\{\{([^}]+)\}\}/ at the start of str, 0 if none.
MatchAt(str) ==
  IF Len(str) < 5 \/ str[1] # "{" \/ str[2] # "{" THEN 0
  ELSE LET closes == {k \in 3..Len(str) : str[k] = "}"}
       IN IF closes = {} THEN 0
          ELSE LET c == CHOOSE k \in closes : \A j \in closes : k <= j
               IN IF c > 3 /\ c < Len(str) /\ str[c + 1] = "}" THEN c + 1 ELSE 0

\* PromptInstance.interpolate: template.replace(/\{\{([^}]+)\}\}/g, replacer)
RECURSIVE interpolate(_, _)
interpolate(template, context) ==
  IF template = <<>> THEN <<>>
  ELSE LET m == MatchAt(template)
       IN IF m = 0
          THEN <<Head(template)>> \o interpolate(Tail(template), context)
          ELSE Walk(context, split(trim(SubSeq(template, 3, m - 2))),
                    SubSeq(template, 1, m))
                 \o interpolate(SubSeq(template, m + 1, Len(template)), context)

\* The interpolation context built by run: the input itself when it is an
\* object, { input } otherwise.
Context(input) ==
  IF typeof(input) = "object" /\ input # Null THEN input
  ELSE Obj([key \in {<<"input">>} |-> input])

-----------------------------------------------------------------------------
(* PromptInstance *)

NoInstance ==
  [id |-> 0, kind |-> None, idx |-> 0, model |-> None, hasHooks |-> FALSE,
   config |-> [user |-> <<>>, system |-> Undefined], input |-> Undefined,
   system |-> Undefined, messages |-> <<>>, toolResults |-> <<>>,
   toolCalls |-> <<>>, totalUsage |-> emptyTokenUsage, pending |-> <<>>,
   fullContent |-> <<>>, yielded |-> <<>>, pendingIds |-> <<>>]

\* new PromptInstance(config, resolvedModel, input, options)
NewInstance(id, kind, idx, model, hasHooks, user) ==
  [id |-> id, kind |-> kind, idx |-> idx, model |-> model, hasHooks |-> hasHooks,
   config |-> [user |-> user, system |-> Undefined], input |-> Undefined,
   system |-> Undefined, messages |-> <<>>, toolResults |-> <<>>,
   toolCalls |-> <<>>, totalUsage |-> emptyTokenUsage, pending |-> <<>>,
   fullContent |-> <<>>, yielded |-> <<>>, pendingIds |-> <<>>]

\* A turn of the messages array.
Message(role, content) == [role |-> role, content |-> content]

\* The promptInstanceEnd event carries the result; its error is kept.
EndEvent(id, error) == <<"promptInstanceEnd", id, error>>

NoResult ==
  [state |-> None, content |-> <<>>, tokenUsage |-> emptyTokenUsage,
   toolCalls |-> <<>>, error |-> NoError]

PromptResult(content, usage, toolCalls, error) ==
  [state |-> "resolved", content |-> content, tokenUsage |-> usage,
   toolCalls |-> toolCalls, error |-> error]

Rejection(error) ==
  [state |-> "rejected", content |-> <<>>, tokenUsage |-> emptyTokenUsage,
   toolCalls |-> <<>>, error |-> error]

\* A configured hook may misbehave (throw, or hand back a broken value)
\* while the behaviour's budget of such calls lasts.
HookMayThrow(name) == name \in hooks.configured /\ hooks.faults > 0
HookFault == hooks' = [hooks EXCEPT !.faults = @ - 1]

\* Variant: the catch block drops the usage accumulated before the failure.
PI_Catch_NoUsage(error) ==
  /\ presult' = PromptResult(<<>>, emptyTokenUsage, pi.toolCalls, error)
  /\ events' = Publish(events, EndEvent(pi.id, error))
  /\ ppc' = "settled"

\* PromptInstance.run, catch block: the failed result, the end event.
PI_Catch(error) ==
  /\ presult' = PromptResult(<<>>, pi.totalUsage, pi.toolCalls, error)
  /\ events' = Publish(events, EndEvent(pi.id, error))
  /\ ppc' = "settled"

\* PromptInstance.run up to the first model call: the beforeCall hook (before
\* the try block), the start event, and the messages array with the user
\* turn built from the bound template.
PI_Start ==
  /\ ppc = "start"
  /\ \/ /\ events' = Publish(events, Event("promptInstanceStart", pi.id))
        /\ pi' = [pi EXCEPT
                    !.messages = <<Message("user", interpolate(pi.config.user,
                                                               Context(pi.input)))>>,
                    !.system = IF IsTruthy(pi.config.system)
                               THEN Str(interpolate(pi.config.system.s,
                                                    Context(pi.input)))
                               ELSE Undefined]
        /\ ppc' = "call"
        /\ UNCHANGED <<presult, hooks>>
     \/ /\ pi.hasHooks /\ HookMayThrow("beforeCall")
        /\ HookFault
        /\ presult' = Rejection(HookError)
        /\ ppc' = "settled"
        /\ UNCHANGED <<events, pi>>
  /\ UNCHANGED <<clientLog, nextId, cfg, client, agentVars, wfVars>>
  /\ UNCHANGED cache

\* client.createMessage rejects: the catch block settles the run.
PI_CallFails ==
  /\ ppc = "call"
  /\ client.fails > 0
  /\ client' = [client EXCEPT !.fails = @ - 1]
  /\ \E error \in client.errors : PI_Catch(error)
  /\ UNCHANGED <<pi, clientLog, nextId, cfg, hooks, agentVars, wfVars>>
  /\ UNCHANGED cache

\* Variant: the loop runs on every stop reason but end_turn.
InToolLoop_UnlessEndTurn(stopReason) == stopReason # "end_turn"

\* Variant: the loop gives up after two tool rounds.
InToolLoop_AtMostTwice(stopReason) ==
  stopReason = "tool_use" /\ Len(clientLog) < 2

\* while (response.stopReason === 'tool_use')
InToolLoop(stopReason) == stopReason = "tool_use"

\* What the client may answer: a tool_use response while its script has
\* one left, or a response with another stop reason.
Responses ==
  [stop : (IF client.toolUses > 0 THEN {"tool_use"} ELSE {}),
   content : client.toolContents, usage : client.usages]
  \cup [stop : client.endStops, content : client.endContents,
         usage : client.usages]

\* One iteration of the for-loop over response.content for a tool_use block:
\* start event, handler lookup, onTool hook, handler, end event, record.
\* The error of the call is the handler's, the hook's, or "unknown tool".
ToolErrors(name) ==
  IF name \notin Registered THEN {UnknownTool}
  ELSE (IF HandlerThrows(name) THEN {HandlerError} ELSE {NoError})
       \cup (IF pi.hasHooks /\ HookMayThrow("onTool") THEN {HookError} ELSE {})

\* toolCallStart / toolCallEnd: toolId and parentPromptId are kept.
ToolEvent(type, toolId, parentPromptId) == <<type, toolId, parentPromptId>>

\* Variant: the end event is emitted inside the try block, after the handler.
ToolEvents_EndInsideTry(log, toolId, toolError) ==
  IF toolError = NoError
  THEN Publish(Publish(log, ToolEvent("toolCallStart", toolId, pi.id)),
               ToolEvent("toolCallEnd", toolId, pi.id))
  ELSE Publish(log, ToolEvent("toolCallStart", toolId, pi.id))

\* The two events of one tool call: the start event before the try block,
\* the end event after it, whatever happened inside.
ToolEvents(log, toolId, toolError) ==
  Publish(Publish(log, ToolEvent("toolCallStart", toolId, pi.id)),
          ToolEvent("toolCallEnd", toolId, pi.id))

ToolCallRecord(id, name, error, parent) ==
  [id |-> id, toolName |-> name, error |-> error, parentPromptId |-> parent]

\* The id the client gave to the block at the given position of the
\* content of its call-th response.
BlockId(call, position) == <<call, position>>

\* The ids of the tool_use blocks of a response, in block order.
RECURSIVE ToolUseIdsFrom(_, _, _)
ToolUseIdsFrom(content, call, position) ==
  IF position > Len(content) THEN <<>>
  ELSE (IF isToolUseBlock(content[position]) THEN <<BlockId(call, position)>> ELSE <<>>)
         \o ToolUseIdsFrom(content, call, position + 1)

ToolUseIds(content, call) == ToolUseIdsFrom(content, call, 1)

\* { type: 'tool_result', tool_use_id: block.id, content }
ToolResult(id, content) == [tool_use_id |-> id, content |-> content]

\* Variant: the tool results replace the turns after the first one.
WithToolResults_Reset(messages, toolResults) ==
  <<messages[1], Message("user", toolResults)>>

\* messages.push({ role: 'user', content: toolResults })
WithToolResults(messages, toolResults) ==
  Append(messages, Message("user", toolResults))

\* Variant: the output is sent back whatever the call's error.
ToolResultContent_OutputOnly(name, error) == <<"output", name>>

\* content: toolError ? String(toolError) : JSON.stringify(toolOutput)
ToolResultContent(name, error) ==
  IF Truthy(error) THEN <<"error", error>> ELSE <<"output", name>>

\* Variant: no try/catch around the handler; its exception reaches the catch
\* block of run.
PI_Tool_Rethrow ==
  /\ ppc = "tools"
  /\ pi.pending # <<>>
  /\ LET name == Head(pi.pending)
         toolId == nextId
     IN \E toolError \in ToolErrors(name) :
          /\ pi' = [pi EXCEPT
                      !.toolCalls = Append(@, ToolCallRecord(toolId, name, toolError, pi.id)),
                      !.toolResults = Append(@, ToolResult(Head(pi.pendingIds),
                                                           ToolResultContent(name, toolError))),
                      !.pending = Tail(@),
                      !.pendingIds = Tail(@)]
          /\ nextId' = nextId + 1
          /\ IF toolError = HookError THEN HookFault ELSE UNCHANGED hooks
          /\ IF toolError = HandlerError
             THEN /\ presult' = PromptResult(<<>>, pi.totalUsage, pi'.toolCalls,
                                             HandlerError)
                  /\ events' = Publish(Publish(events, ToolEvent("toolCallStart",
                                                                 toolId, pi.id)),
                                       EndEvent(pi.id, HandlerError))
                  /\ ppc' = "settled"
             ELSE /\ events' = ToolEvents(events, toolId, toolError)
                  /\ UNCHANGED <<ppc, presult>>
  /\ UNCHANGED <<clientLog, cfg, client, agentVars, wfVars>>
  /\ UNCHANGED cache

PI_Tool ==
  /\ ppc = "tools"
  /\ pi.pending # <<>>
  /\ LET name == Head(pi.pending)
         toolId == nextId
     IN \E toolError \in ToolErrors(name) :
          /\ events' = ToolEvents(events, toolId, toolError)
          /\ pi' = [pi EXCEPT
                      !.toolCalls = Append(@, ToolCallRecord(toolId, name, toolError, pi.id)),
                      !.toolResults = Append(@, ToolResult(Head(pi.pendingIds),
                                                           ToolResultContent(name, toolError))),
                      !.pending = Tail(@),
                      !.pendingIds = Tail(@)]
          /\ nextId' = nextId + 1
          /\ IF toolError = HookError THEN HookFault ELSE UNCHANGED hooks
  /\ UNCHANGED <<ppc, presult, clientLog, cfg, client, agentVars, wfVars>>
  /\ UNCHANGED cache

\* After the last block of the response: the tool results are pushed as a
\* user turn and the model is called again.
PI_ToolsDone ==
  /\ ppc = "tools"
  /\ pi.pending = <<>>
  /\ pi' = [pi EXCEPT !.messages = WithToolResults(@, pi.toolResults)]
  /\ ppc' = "call"
  /\ UNCHANGED <<presult, clientLog, events, nextId, envVars, agentVars, wfVars>>
  /\ UNCHANGED cache

\* client.createMessage answers. Usage is added. Inside the tool loop the
\* assistant turn is pushed and the tool_use blocks of the response are
\* queued for the for-loop. Otherwise the result is built from the text
\* blocks, the afterCall hook runs and the end event is published; an
\* afterCall hook that throws is caught by the catch block.
PI_CallAnswers ==
  /\ ppc = "call"
  /\ \E response \in Responses :
       LET usage == aggregateTokenUsage(<<pi.totalUsage, response.usage>>)
       IN /\ clientLog' = Append(clientLog, [stop |-> response.stop,
                                              content |-> response.content,
                                              messages |-> pi.messages,
                                              system |-> pi.system,
                                              usage |-> response.usage,
                                              model |-> pi.model,
                                              tools |-> Registered])
          /\ client' = IF response.stop = "tool_use"
                       THEN [client EXCEPT !.toolUses = @ - 1] ELSE client
          /\ IF InToolLoop(response.stop)
             THEN /\ pi' = [pi EXCEPT !.totalUsage = usage,
                                      !.messages = Append(@, Message("assistant",
                                                                     response.content)),
                                      !.toolResults = <<>>,
                                      !.pending = ToolUseBlocks(response.content),
                                      !.pendingIds = ToolUseIds(response.content,
                                                                Len(clientLog) + 1)]
                  /\ ppc' = "tools"
                  /\ UNCHANGED <<presult, events, hooks>>
             ELSE /\ pi' = [pi EXCEPT !.totalUsage = usage]
                  /\ ppc' = "settled"
                  /\ \/ /\ presult' = PromptResult(TextContent(response.content),
                                                   usage, pi.toolCalls, NoError)
                        /\ events' = Publish(events, EndEvent(pi.id, NoError))
                        /\ UNCHANGED hooks
                     \/ /\ pi.hasHooks /\ HookMayThrow("afterCall")
                        /\ HookFault
                        /\ presult' = PromptResult(<<>>, usage, pi.toolCalls, HookError)
                        /\ events' = Publish(events, EndEvent(pi.id, HookError))
  /\ UNCHANGED <<nextId, cfg, agentVars, wfVars>>
  /\ UNCHANGED cache

\* PromptInstance.runStreaming.  The generator runs when its consumer asks
\* for the next item and is suspended at each yield; pi.yielded lists the
\* items handed to the consumer so far.
TokenItem(token) == <<"token", token>>
ResultItem(result) == <<"result", result>>

\* An event of the stream: its kind and, for a text delta, delta.text.
StreamEvent(kind, text) == <<kind, text>>

\* event.type === 'content_block_delta' with a string delta.text
IsTextDelta(event) == event[1] = "text"

\* Variant: fullContent = token
Accumulate_LastToken(fullContent, token) == token

\* fullContent += token
Accumulate(fullContent, token) == fullContent \o token

\* runStreaming, catch block: the end event, then the failed result is yielded.
RS_Catch(error) ==
  LET result == PromptResult(pi.fullContent, pi.totalUsage, pi.toolCalls, error)
  IN /\ events' = Publish(events, EndEvent(pi.id, error))
     /\ presult' = result
     /\ pi' = [pi EXCEPT !.yielded = Append(@, ResultItem(result))]
     /\ ppc' = "settled"

\* First request for an item: beforeCall, the start event, interpolation and
\* the streaming request.
RS_Start ==
  /\ ppc = "streamStart"
  /\ \/ /\ events' = Publish(events, Event("promptInstanceStart", pi.id))
        /\ LET user == interpolate(pi.config.user, Context(pi.input))
               system == IF IsTruthy(pi.config.system)
                         THEN Str(interpolate(pi.config.system.s, Context(pi.input)))
                         ELSE Undefined
           IN /\ pi' = [pi EXCEPT !.messages = <<Message("user", user)>>,
                                  !.system = system]
              /\ clientLog' = Append(clientLog, [stop |-> None, content |-> <<>>,
                                                 messages |-> <<Message("user", user)>>,
                                                 system |-> system,
                                                 usage |-> emptyTokenUsage,
                                                 model |-> pi.model,
                                                 tools |-> {}])
        /\ ppc' = "stream"
        /\ UNCHANGED <<presult, hooks>>
     \/ /\ pi.hasHooks /\ HookMayThrow("beforeCall")
        /\ HookFault
        /\ presult' = Rejection(HookError)
        /\ ppc' = "settled"
        /\ UNCHANGED <<events, pi, clientLog>>
  /\ UNCHANGED <<nextId, cfg, client, agentVars, wfVars>>
  /\ UNCHANGED cache

\* The stream delivers a text delta: the token event, then the token is
\* yielded and the generator waits for the consumer.
RS_Token ==
  /\ ppc \in {"stream", "suspended"}
  /\ client.stream # <<>> /\ IsTextDelta(Head(client.stream))
  /\ client' = [client EXCEPT !.stream = Tail(@)]
  /\ events' = Publish(events, Event("promptTokenReceived", pi.id))
  /\ LET token == Head(client.stream)[2]
     IN pi' = [pi EXCEPT !.fullContent = Accumulate(@, token),
                         !.yielded = Append(@, TokenItem(token))]
  /\ ppc' = "suspended"
  /\ UNCHANGED <<presult, hooks, clientLog, nextId, cfg, agentVars, wfVars>>
  /\ UNCHANGED cache

\* The stream delivers any other event: nothing is yielded.
RS_Skip ==
  /\ ppc \in {"stream", "suspended"}
  /\ client.stream # <<>> /\ ~IsTextDelta(Head(client.stream))
  /\ client' = [client EXCEPT !.stream = Tail(@)]
  /\ ppc' = "stream"
  /\ UNCHANGED <<pi, events, presult, hooks, clientLog, nextId, cfg, agentVars,
                 wfVars>>
  /\ UNCHANGED cache

\* The stream (or its final message) fails.
RS_StreamFails ==
  /\ ppc \in {"stream", "suspended"}
  /\ client.fails > 0
  /\ client' = [client EXCEPT !.fails = @ - 1]
  /\ \E error \in client.errors : RS_Catch(error)
  /\ UNCHANGED <<hooks, clientLog, nextId, cfg, agentVars, wfVars>>
  /\ UNCHANGED cache

\* The stream is exhausted: usage of the final message, afterCall, the end
\* event, then the result is yielded.
RS_Finish ==
  /\ ppc \in {"stream", "suspended"}
  /\ client.stream = <<>>
  /\ LET usage == [inputTokens |-> ResponseUsage.inputTokens,
                   outputTokens |-> ResponseUsage.outputTokens]
         result == PromptResult(pi.fullContent, usage, pi.toolCalls, NoError)
         failed == PromptResult(pi.fullContent, usage, pi.toolCalls, HookError)
     IN \/ /\ events' = Publish(events, EndEvent(pi.id, NoError))
           /\ presult' = result
           /\ pi' = [pi EXCEPT !.totalUsage = usage,
                               !.yielded = Append(@, ResultItem(result))]
           /\ UNCHANGED hooks
        \/ /\ pi.hasHooks /\ HookMayThrow("afterCall")
           /\ HookFault
           /\ events' = Publish(events, EndEvent(pi.id, HookError))
           /\ presult' = failed
           /\ pi' = [pi EXCEPT !.totalUsage = usage,
                               !.yielded = Append(@, ResultItem(failed))]
  /\ ppc' = "settled"
  /\ UNCHANGED <<client, clientLog, nextId, cfg, agentVars, wfVars>>
  /\ UNCHANGED cache

\* The consumer stops reading after a token: the generator is closed where
\* it waits, inside the try block, and runs no further statement.
RS_Stop ==
  /\ ppc = "suspended"
  /\ ppc' = "returned"
  /\ UNCHANGED <<pi, events, presult, clientLog, nextId, envVars, agentVars, wfVars>>
  /\ UNCHANGED cache

NextStreaming ==
  \/ RS_Start
  \/ RS_Token
  \/ RS_Skip
  \/ RS_StreamFails
  \/ RS_Finish
  \/ RS_Stop

NextPrompt ==
  \/ PI_Start
  \/ PI_CallFails
  \/ PI_CallAnswers
  \/ PI_Tool
  \/ PI_ToolsDone

-----------------------------------------------------------------------------
(* Agent *)

\* a ?? b
Coalesce(a, b) == IF a # None THEN a ELSE b

\* Variant: the agent's model shadows the prompt's override.
resolveModel_AgentFirst(promptModel, agentModel, parentModel) ==
  Coalesce(agentModel, Coalesce(promptModel, parentModel))

\* Agent.resolveModel: promptModel ?? this.config.model ?? this.parentModel;
\* None stands for the `!model` case, in which resolveModel throws.
resolveModel(promptModel, agentModel, parentModel) ==
  Coalesce(promptModel, Coalesce(agentModel, parentModel))

\* this.config.maxRetries ?? 0
maxRetries == IF cfg.maxRetries = <<>> THEN 0 ELSE cfg.maxRetries[1]

\* new Agent(config, options)
NewAgent(id, parentModel) ==
  [id |-> id, parentModel |-> parentModel, idx |-> 1, attempts |-> 0,
   retryCount |-> 0, promptResults |-> <<>>, result |-> <<>>, failedId |-> 0,
   reflectionMetadata |-> <<>>, caught |-> NoError,
   input |-> RunInput, processedInput |-> Undefined, promptInput |-> Undefined]

\* What a configured hook returns for the input it is handed: a value of
\* its own built around its argument; without the hook the input passes
\* through.
HookReturn(hook, input) ==
  IF hook \in hooks.configured THEN Obj([key \in {<<hook>>} |-> input]) ELSE input

\* let promptInput = processedInput, then the beforePrompt hook
PromptInput(agent) == HookReturn("beforePrompt", agent.processedInput)

\* Variant: a retry is bound to the content of the failed attempt.
AttemptInput_Chained(agent) ==
  IF agent.result = <<>> THEN agent.promptInput ELSE Str(agent.result[1].content)

\* The input argument of new PromptInstance in the retry loop.
AttemptInput(agent) == agent.promptInput

\* The input of the reflection instance.
ReflectionInput(originalPromptConfig, failedResult) ==
  Obj([key \in {<<"originalPrompt">>, <<"originalResult">>, <<"error">>} |->
         CASE key = <<"originalPrompt">> -> Str(originalPromptConfig.user)
           [] key = <<"originalResult">> -> Str(failedResult.content)
           [] OTHER -> Str(<<failedResult.error>>)])

AgentRunResult(promptResults, retryCount, reflectionMetadata, error) ==
  [state |-> "resolved", promptResults |-> promptResults,
   tokenUsage |-> aggregateTokenUsage([i \in 1..Len(promptResults) |->
                                         promptResults[i].tokenUsage]),
   retryCount |-> retryCount, reflectionMetadata |-> reflectionMetadata,
   error |-> error]

AgentRejection(error) ==
  [state |-> "rejected", promptResults |-> <<>>, tokenUsage |-> emptyTokenUsage,
   retryCount |-> 0, reflectionMetadata |-> <<>>, error |-> error]

\* Variant: the error of the last result that carries one.
FirstError_Last(results) ==
  IF \E i \in 1..Len(results) : Truthy(results[i].error)
  THEN results[CHOOSE i \in 1..Len(results) :
                 /\ Truthy(results[i].error)
                 /\ \A k \in (i + 1)..Len(results) : ~Truthy(results[k].error)].error
  ELSE NoError

\* results.some(r => r.error) ? results.find(r => r.error)?.error : undefined
FirstError(results) ==
  IF \E i \in 1..Len(results) : Truthy(results[i].error)
  THEN results[CHOOSE i \in 1..Len(results) :
                 /\ Truthy(results[i].error)
                 /\ \A k \in 1..(i - 1) : ~Truthy(results[k].error)].error
  ELSE NoError

\* Variant: the loop is bounded by the agent-wide counter.
RetryLoopContinues_AgentWide(agent) == agent.retryCount <= maxRetries

\* while (attempts <= maxRetries), and `if (attempts <= maxRetries) continue`
RetryLoopContinues(agent) == agent.attempts <= maxRetries

\* Variant: reflection without the attempts guard.
ShouldReflect_Unguarded(agent) == cfg.enableReflection

\* if (this.config.enableReflection && attempts <= maxRetries)
ShouldReflect(agent) == cfg.enableReflection /\ agent.attempts <= maxRetries

\* Variant: the prompt loop never breaks.
FailFast_Never(result, retryCount) == FALSE

\* if (result?.error && retryCount > maxRetries) break
FailFast(result, retryCount) == Truthy(result.error) /\ retryCount > maxRetries

\* Variant: the agent-wide counter restarts with every prompt.
CountFailure_PerPrompt(agent) ==
  [agent EXCEPT !.attempts = @ + 1, !.retryCount = agent.attempts + 1]

\* attempts++; retryCount++
CountFailure(agent) ==
  [agent EXCEPT !.attempts = @ + 1, !.retryCount = @ + 1]

\* Variant: a reflection result is never adopted.
Adopts_Never(reflectionResult) == FALSE

\* if (!reflectionResult.error)
Adopts(reflectionResult) == ~Truthy(reflectionResult.error)

\* An exception inside the try block of Agent.run: control moves to catch.
AG_Throw(agent, error) ==
  /\ ag' = [agent EXCEPT !.caught = error]
  /\ apc' = "catch"

\* Agent.run up to the prompt loop: the beforeRun hook (before the try
\* block), then the agentRunStart event.
AG_Start ==
  /\ apc = "start"
  /\ \/ /\ ag' = [ag EXCEPT !.processedInput = HookReturn("beforeRun", ag.input)]
        /\ events' = Publish(events, Event("agentRunStart", ag.id))
        /\ apc' = "promptBegin"
        /\ UNCHANGED <<aresult, hooks>>
     \/ /\ HookMayThrow("beforeRun")
        /\ HookFault
        /\ aresult' = AgentRejection(HookError)
        /\ apc' = "settled"
        /\ UNCHANGED <<ag, events>>
  /\ UNCHANGED <<execLog, clientLog, nextId, ppc, pi, presult, cfg, client, wfVars>>
  /\ UNCHANGED cache

\* The prompt used by reflect.
DEFAULT_REFLECTION_PROMPT == [user |-> <<"reflection">>]

\* What a hook that returns may leave behind in the agent's config: hooks
\* are handed, or can reach, the PromptConfig objects of config.prompts,
\* and a hook configured to do so rewrites the user template of the
\* current prompt.
AfterHook(hook) ==
  {cfg} \cup (IF hook \in hooks.configured
              THEN {[cfg EXCEPT !.prompts[ag.idx].user = <<"mutated">>]} ELSE {})

\* Head of the for-loop over config.prompts: the beforePrompt hook and the
\* locals of the retry loop; after the last prompt, on to the aggregation.
AG_PromptBegin ==
  /\ apc = "promptBegin"
  /\ IF ag.idx > Len(cfg.prompts)
     THEN /\ apc' = "finish"
          /\ UNCHANGED <<ag, hooks, cfg>>
     ELSE \/ /\ ag' = [ag EXCEPT !.attempts = 0, !.result = <<>>,
                                  !.promptInput = PromptInput(ag)]
             /\ apc' = "attempt"
             /\ cfg' \in AfterHook("beforePrompt:mutate")
             /\ UNCHANGED hooks
          \/ /\ HookMayThrow("beforePrompt")
             /\ HookFault
             /\ AG_Throw(ag, HookError)
             /\ UNCHANGED cfg
  /\ UNCHANGED <<aresult, execLog, events, clientLog, nextId, ppc, pi, presult,
                 client, wfVars>>
  /\ UNCHANGED cache

\* new PromptInstance(...) followed by instance.run(client)
AG_RunInstance(kind, idx, model, hasHooks, user, input) ==
  /\ pi' = [NewInstance(nextId, kind, idx, model, hasHooks, user)
              EXCEPT !.input = input]
  /\ nextId' = nextId + 1
  /\ execLog' = Append(execLog, [idx |-> idx, kind |-> kind, model |-> model,
                                 id |-> nextId, input |-> input])
  /\ clientLog' = <<>>
  /\ presult' = NoResult
  /\ ppc' = "start"

\* Head of the retry loop: a fresh PromptInstance on the resolved model is
\* constructed and run; resolveModel throws when no model is configured.
AG_Attempt ==
  /\ apc = "attempt"
  /\ LET model == resolveModel(cfg.prompts[ag.idx].model, cfg.model, ag.parentModel)
     IN IF ~RetryLoopContinues(ag)
        THEN /\ apc' = "promptEnd"
             /\ UNCHANGED <<ag, execLog, clientLog, nextId, ppc, pi, presult>>
        ELSE IF model = None
        THEN /\ AG_Throw(ag, NoModelError)
             /\ UNCHANGED <<execLog, clientLog, nextId, ppc, pi, presult>>
        ELSE /\ AG_RunInstance("prompt", ag.idx, model, TRUE, cfg.prompts[ag.idx].user,
                             AttemptInput(ag))
             /\ ag' = [ag EXCEPT !.failedId = nextId]
             /\ apc' = "awaitPrompt"
  /\ UNCHANGED <<aresult, events, envVars, wfVars>>
  /\ UNCHANGED cache

\* Agent.reflect up to the run of the reflection instance: reflectionStart,
\* resolveModel(overrideModel) with no override passed, the instance built
\* from the default reflection prompt (which has no hooks).
AG_Reflect(agent) ==
  LET model == resolveModel(None, cfg.model, agent.parentModel)
  IN /\ events' = Publish(events, Event("reflectionStart", agent.id))
     /\ IF model = None
        THEN /\ AG_Throw(agent, NoModelError)
             /\ ppc' = None
             /\ UNCHANGED <<execLog, clientLog, nextId, pi, presult>>
        ELSE /\ AG_RunInstance("reflection", agent.idx, model, FALSE,
                             DEFAULT_REFLECTION_PROMPT.user,
                             ReflectionInput(cfg.prompts[agent.idx], agent.result[1]))
             /\ ag' = agent
             /\ apc' = "awaitReflect"

\* instance.run settled: the error check of the retry loop, the counters,
\* the onError hook, and the choice between reflection, retry and leaving
\* the loop.
AG_AfterAttempt ==
  /\ apc = "awaitPrompt"
  /\ ppc = "settled"
  /\ IF presult.state = "rejected"
     THEN /\ AG_Throw(ag, presult.error)
          /\ ppc' = None
          /\ UNCHANGED <<events, execLog, clientLog, nextId, pi, presult, hooks, cfg>>
     ELSE IF ~Truthy(presult.error)
     THEN /\ ag' = [ag EXCEPT !.result = <<presult>>]
          /\ apc' = "promptEnd"
          /\ ppc' = None
          /\ UNCHANGED <<events, execLog, clientLog, nextId, pi, presult, hooks, cfg>>
     ELSE LET failed == CountFailure([ag EXCEPT !.result = <<presult>>])
          IN \/ /\ HookMayThrow("onError")
                /\ HookFault
                /\ AG_Throw(failed, HookError)
                /\ ppc' = None
                /\ UNCHANGED <<events, execLog, clientLog, nextId, pi, presult, cfg>>
             \/ /\ UNCHANGED hooks
                /\ cfg' \in AfterHook("onError:mutate")
                /\ IF ShouldReflect(failed)
                   THEN AG_Reflect(failed)
                   ELSE /\ ag' = failed
                        /\ apc' = IF RetryLoopContinues(failed)
                                  THEN "attempt" ELSE "promptEnd"
                        /\ ppc' = None
                        /\ UNCHANGED <<events, execLog, clientLog, nextId, pi, presult>>
  /\ UNCHANGED <<aresult, client, wfVars>>
  /\ UNCHANGED cache

\* reflectionInstance.run settled: reflectionEnd, the onReflection hook, and
\* back in the retry loop the adoption of an error-free reflection result.
AG_AfterReflect ==
  /\ apc = "awaitReflect"
  /\ ppc = "settled"
  /\ ppc' = None
  /\ IF presult.state = "rejected"
     THEN /\ AG_Throw(ag, presult.error)
          /\ UNCHANGED <<events, hooks>>
     ELSE /\ events' = Publish(events, Event("reflectionEnd", ag.id))
          /\ \/ /\ HookMayThrow("onReflection")
                /\ HookFault
                /\ AG_Throw(ag, HookError)
             \/ /\ UNCHANGED hooks
                /\ IF Adopts(presult)
                   THEN /\ ag' = [ag EXCEPT
                                    !.reflectionMetadata =
                                       <<[originalError |-> ag.result[1].error,
                                          reflectionPromptId |-> ag.failedId,
                                          reflectionResult |-> presult]>>,
                                    !.result = <<presult>>]
                        /\ apc' = "promptEnd"
                   ELSE /\ ag' = ag
                        /\ apc' = IF RetryLoopContinues(ag)
                                  THEN "attempt" ELSE "promptEnd"
  /\ UNCHANGED <<aresult, execLog, clientLog, nextId, pi, presult, cfg, client, wfVars>>
  /\ UNCHANGED cache

\* After the retry loop: the afterPrompt hook, the push onto promptResults,
\* and the fail-fast check. The hook returns its argument, returns it with
\* an error attached, or throws.
AG_PromptEnd ==
  /\ apc = "promptEnd"
  /\ IF ag.result = <<>>
     THEN /\ ag' = [ag EXCEPT !.idx = @ + 1]
          /\ apc' = "promptBegin"
          /\ UNCHANGED hooks
     ELSE \/ \E result \in {ag.result[1]} \cup
                           (IF HookMayThrow("afterPrompt:error")
                            THEN {[ag.result[1] EXCEPT !.error = HookError]} ELSE {}) :
               /\ ag' = [ag EXCEPT !.result = <<result>>,
                                   !.promptResults = Append(@, result),
                                   !.idx = IF FailFast(result, ag.retryCount)
                                           THEN Len(cfg.prompts) + 1 ELSE @ + 1]
               /\ apc' = "promptBegin"
               /\ IF result = ag.result[1] THEN UNCHANGED hooks ELSE HookFault
          \/ /\ HookMayThrow("afterPrompt")
             /\ HookFault
             /\ AG_Throw(ag, HookError)
  /\ UNCHANGED <<aresult, execLog, events, clientLog, nextId, ppc, pi, presult,
                 cfg, client, wfVars>>
  /\ UNCHANGED cache

\* After the prompt loop: aggregation, the afterRun hook, agentRunEnd.
AG_Finish ==
  /\ apc = "finish"
  /\ \/ /\ aresult' = AgentRunResult(ag.promptResults, ag.retryCount,
                                     ag.reflectionMetadata, FirstError(ag.promptResults))
        /\ events' = Publish(events, Event("agentRunEnd", ag.id))
        /\ apc' = "settled"
        /\ UNCHANGED <<ag, hooks>>
     \/ /\ HookMayThrow("afterRun")
        /\ HookFault
        /\ AG_Throw(ag, HookError)
        /\ UNCHANGED <<aresult, events>>
  /\ UNCHANGED <<execLog, clientLog, nextId, ppc, pi, presult, cfg, client, wfVars>>
  /\ UNCHANGED cache

\* The catch block of Agent.run: the onError hook, the error-carrying result,
\* agentRunEnd. An onError hook that throws here rejects the run.
AG_Catch ==
  /\ apc = "catch"
  /\ apc' = "settled"
  /\ \/ /\ aresult' = AgentRunResult(ag.promptResults, ag.retryCount, <<>>, ag.caught)
        /\ events' = Publish(events, Event("agentRunEnd", ag.id))
        /\ UNCHANGED hooks
     \/ /\ HookMayThrow("onError")
        /\ HookFault
        /\ aresult' = AgentRejection(HookError)
        /\ UNCHANGED events
  /\ UNCHANGED <<ag, execLog, clientLog, nextId, ppc, pi, presult, cfg, client, wfVars>>
  /\ UNCHANGED cache

NextAgent ==
  \/ NextPrompt
  \/ AG_Start
  \/ AG_PromptBegin
  \/ AG_Attempt
  \/ AG_AfterAttempt
  \/ AG_AfterReflect
  \/ AG_PromptEnd
  \/ AG_Finish
  \/ AG_Catch

-----------------------------------------------------------------------------
(* AgentWorkflow *)

NewWorkflow ==
  [stepIdx |-> 1, agentIdx |-> 1, stepResults |-> <<>>, agentResults |-> <<>>,
   totalUsage |-> emptyTokenUsage, run |-> 1, input |-> RunInput]

WorkflowRunResult(stepResults, usage, error) ==
  [state |-> "resolved", stepResults |-> stepResults, tokenUsage |-> usage,
   error |-> error]

WorkflowRejection(error) ==
  [state |-> "rejected", stepResults |-> <<>>, tokenUsage |-> emptyTokenUsage,
   error |-> error]

\* Workflow.setStatus
setStatus(s) == status' = s

\* Variant: the agent loop never breaks.
StepStops_Never(result) == FALSE

\* executeStep: if (result.error) break
StepStops(result) == Truthy(result.error)

\* run: stepResult.agentResults.find(r => r.error)?.error
StepError(agentResults) == FirstError(agentResults)

\* Variant: a step that holds a failed agent is left out of the total.
StepUsage_SkipFailed(total, agentResults) ==
  IF \E i \in 1..Len(agentResults) : Truthy(agentResults[i].error)
  THEN total
  ELSE aggregateTokenUsage(<<total>> \o [i \in 1..Len(agentResults) |->
                                           agentResults[i].tokenUsage])

\* run: for (const agentResult of stepResult.agentResults)
\*        totalUsage = aggregateTokenUsage([totalUsage, agentResult.tokenUsage])
StepUsage(total, agentResults) ==
  aggregateTokenUsage(<<total>> \o [i \in 1..Len(agentResults) |->
                                      agentResults[i].tokenUsage])

\* Variant: run without its catch block.
AW_Catch_Rethrow(error) ==
  /\ wresult' = WorkflowRejection(error)
  /\ wpc' = "settled"
  /\ UNCHANGED status

\* run, catch block: status failed, the error-carrying result.
AW_Catch(error) ==
  /\ setStatus("failed")
  /\ wresult' = WorkflowRunResult(wf.stepResults, wf.totalUsage, error)
  /\ wpc' = "settled"

\* AgentWorkflow.run up to the loop over the steps.
AW_Run ==
  /\ wpc = "idle"
  /\ setStatus("running")
  /\ wf' = NewWorkflow
  /\ wpc' = "stepStart"
  /\ UNCHANGED <<wresult, events, clientLog, nextId, ppc, pi, presult, envVars, agentVars>>
  /\ UNCHANGED cache

\* Head of the loop over the steps: executeStep publishes stepStart; after
\* the last step the status is completed and run returns.
AW_StepStart ==
  /\ wpc = "stepStart"
  /\ IF wf.stepIdx > cfg.nSteps
     THEN /\ setStatus("completed")
          /\ wresult' = WorkflowRunResult(wf.stepResults, wf.totalUsage, NoError)
          /\ wpc' = "settled"
          /\ UNCHANGED <<wf, events>>
     ELSE /\ events' = Publish(events, Event("stepStart", wf.stepIdx))
          /\ wf' = [wf EXCEPT !.agentIdx = 1, !.agentResults = <<>>]
          /\ wpc' = "agentStart"
          /\ UNCHANGED <<status, wresult>>
  /\ UNCHANGED <<clientLog, nextId, ppc, pi, presult, envVars, agentVars>>
  /\ UNCHANGED cache

\* Head of the loop over step.agents: the Agent is constructed with the
\* workflow's default model as parent model, and run.
AW_AgentStart ==
  /\ wpc = "agentStart"
  /\ IF wf.agentIdx > cfg.nAgents
     THEN /\ wpc' = "stepEnd"
          /\ UNCHANGED <<nextId, agentVars>>
     ELSE /\ ag' = [NewAgent(nextId, cfg.defaultModel) EXCEPT !.input = wf.input]
          /\ nextId' = nextId + 1
          /\ apc' = "start"
          /\ aresult' = [AgentRejection(NoError) EXCEPT !.state = None]
          /\ execLog' = <<>>
          /\ wpc' = "awaitAgent"
  /\ UNCHANGED <<wf, status, wresult, events, clientLog, ppc, pi, presult, envVars>>
  /\ UNCHANGED cache

\* agent.run settled: a rejection escapes executeStep into the catch block
\* of run; a result is pushed, and one with an error ends the agent loop.
AW_AfterAgent ==
  /\ wpc = "awaitAgent"
  /\ apc = "settled"
  /\ apc' = None
  /\ IF aresult.state = "rejected"
     THEN /\ AW_Catch(aresult.error)
          /\ UNCHANGED wf
     ELSE /\ wf' = [wf EXCEPT !.agentResults = Append(@, aresult),
                              !.agentIdx = IF StepStops(aresult)
                                           THEN cfg.nAgents + 1 ELSE @ + 1]
          /\ wpc' = "agentStart"
          /\ UNCHANGED <<status, wresult>>
  /\ UNCHANGED <<ag, aresult, execLog, events, clientLog, nextId, ppc, pi, presult,
                 envVars>>
  /\ UNCHANGED cache

\* End of executeStep and the rest of the loop body in run: stepEnd, the
\* push onto stepResults, the usage roll-up and the error check.
AW_StepEnd ==
  /\ wpc = "stepEnd"
  /\ events' = Publish(events, Event("stepEnd", wf.stepIdx))
  /\ LET stepResults == Append(wf.stepResults,
                               [stepName |-> wf.stepIdx, agentResults |-> wf.agentResults])
         usage == StepUsage(wf.totalUsage, wf.agentResults)
         stepError == StepError(wf.agentResults)
     IN /\ wf' = [wf EXCEPT !.stepResults = stepResults, !.totalUsage = usage,
                            !.stepIdx = @ + 1]
        /\ IF Truthy(stepError)
           THEN /\ setStatus("failed")
                /\ wresult' = WorkflowRunResult(stepResults, usage, stepError)
                /\ wpc' = "settled"
           ELSE /\ wpc' = "stepStart"
                /\ UNCHANGED <<status, wresult>>
  /\ UNCHANGED <<clientLog, nextId, ppc, pi, presult, envVars, agentVars>>
  /\ UNCHANGED cache

\* run invoked again on an instance whose previous run has settled.
AW_RunAgain ==
  /\ wpc = "settled"
  /\ wf.run < MaxRuns
  /\ setStatus("running")
  /\ wf' = [NewWorkflow EXCEPT !.run = wf.run + 1]
  /\ wresult' = [WorkflowRejection(NoError) EXCEPT !.state = None]
  /\ wpc' = "stepStart"
  /\ UNCHANGED <<events, clientLog, nextId, ppc, pi, presult, envVars, agentVars>>
  /\ UNCHANGED cache

Next ==
  \/ NextAgent
  \/ AW_Run
  \/ AW_StepStart
  \/ AW_AgentStart
  \/ AW_AfterAgent
  \/ AW_StepEnd

-----------------------------------------------------------------------------
(* Configurations and scripted environments *)

\* MemoryCache.  cache.store is the Map of entries, cache.now is Date.now(),
\* cache.returned is what the last call returned, and cache.latest remembers,
\* for every key, the most recent set that has not since been deleted or
\* cleared (with the time of the call).
MaxTime == 4

Keys == {"k1", "k2"}
Values == {"v1", "v2"}
TTLs == {<<>>, <<0>>, <<1>>, <<2>>}

NoCache == [store |-> <<>>, now |-> 0, returned |-> <<>>, latest |-> <<>>]

\* new MemoryCache()
NewCache ==
  [store |-> [key \in {} |-> <<>>], now |-> 1, returned |-> <<>>,
   latest |-> [key \in Keys |-> <<>>]]

\* entry.expires && Date.now() > entry.expires
Expired(entry) ==
  entry.expires # <<>> /\ entry.expires[1] # 0 /\ cache.now > entry.expires[1]

\* this.store.delete(key), as a Map
MapDelete(store, key) == [k \in DOMAIN store \ {key} |-> store[k]]

\* this.store.set(key, entry), as a Map
MapSet(store, key, entry) ==
  [k \in DOMAIN store \cup {key} |-> IF k = key THEN entry ELSE store[k]]

\* What get(key) returns; None is undefined.
GetReturn(key) ==
  IF key \notin DOMAIN cache.store THEN None
  ELSE IF Expired(cache.store[key]) THEN None
  ELSE cache.store[key].value

\* What has(key) returns.
HasReturn(key) ==
  IF key \notin DOMAIN cache.store THEN FALSE
  ELSE IF Expired(cache.store[key]) THEN FALSE
  ELSE TRUE

\* What delete(key) returns: Map.delete tells whether the key was there.
DeleteReturn(key) == key \in DOMAIN cache.store

\* get size()
size == Cardinality(DOMAIN cache.store)

\* The store after get(key) or has(key): an expired entry is removed.
Purged(key) ==
  IF key \in DOMAIN cache.store /\ Expired(cache.store[key])
  THEN MapDelete(cache.store, key) ELSE cache.store

MemoryCache_get ==
  /\ \E key \in Keys :
       cache' = [cache EXCEPT !.returned = <<"get", key, GetReturn(key)>>,
                              !.store = Purged(key)]
  /\ UNCHANGED <<cfg, client, hooks, clientLog, events, nextId, ppc, pi, presult,
                 agentVars, wfVars>>

\* expires: ttl ? Date.now() + ttl : undefined
MemoryCache_set ==
  /\ \E key \in Keys, value \in Values, ttl \in TTLs :
       LET expires == IF ttl # <<>> /\ ttl[1] # 0 THEN <<cache.now + ttl[1]>>
                      ELSE <<>>
       IN cache' = [cache EXCEPT
                      !.returned = <<"set", key, None>>,
                      !.store = MapSet(@, key, [value |-> value, expires |-> expires]),
                      !.latest[key] = <<[value |-> value, ttl |-> ttl,
                                         at |-> cache.now]>>]
  /\ UNCHANGED <<cfg, client, hooks, clientLog, events, nextId, ppc, pi, presult,
                 agentVars, wfVars>>

MemoryCache_delete ==
  /\ \E key \in Keys :
       cache' = [cache EXCEPT !.returned = <<"delete", key, DeleteReturn(key)>>,
                              !.store = MapDelete(@, key),
                              !.latest[key] = <<>>]
  /\ UNCHANGED <<cfg, client, hooks, clientLog, events, nextId, ppc, pi, presult,
                 agentVars, wfVars>>

MemoryCache_clear ==
  /\ cache' = [cache EXCEPT !.returned = <<"clear", None, None>>,
                            !.store = [key \in {} |-> <<>>],
                            !.latest = [key \in Keys |-> <<>>]]
  /\ UNCHANGED <<cfg, client, hooks, clientLog, events, nextId, ppc, pi, presult,
                 agentVars, wfVars>>

MemoryCache_has ==
  /\ \E key \in Keys :
       cache' = [cache EXCEPT !.returned = <<"has", key, HasReturn(key)>>,
                              !.store = Purged(key)]
  /\ UNCHANGED <<cfg, client, hooks, clientLog, events, nextId, ppc, pi, presult,
                 agentVars, wfVars>>

\* Time passes between two calls.
Tick ==
  /\ cache.now < MaxTime
  /\ cache' = [cache EXCEPT !.now = @ + 1]
  /\ UNCHANGED <<cfg, client, hooks, clientLog, events, nextId, ppc, pi, presult,
                 agentVars, wfVars>>

NextCache ==
  \/ MemoryCache_get
  \/ MemoryCache_set
  \/ MemoryCache_delete
  \/ MemoryCache_clear
  \/ MemoryCache_has
  \/ Tick

NoAgent == [NewAgent(0, None) EXCEPT !.idx = 0]
NoAgentResult == [AgentRejection(NoError) EXCEPT !.state = None]
NoWorkflow == [NewWorkflow EXCEPT !.stepIdx = 0, !.agentIdx = 0]
NoWorkflowResult == [WorkflowRejection(NoError) EXCEPT !.state = None]

PromptConfigs == [model : {None, "promptModel"}, user : {<<"authored">>}]

NoConfig ==
  [defaultModel |-> None, nSteps |-> 0, nAgents |-> 0, model |-> None,
   maxRetries |-> <<>>, enableReflection |-> FALSE, prompts |-> <<>>]

PromptHooks == {"beforeCall", "afterCall", "onTool"}

AgentHooks ==
  {"beforeRun", "afterRun", "beforePrompt", "afterPrompt", "afterPrompt:error",
   "onError", "onReflection"}

\* Responses the client may give to a directly run prompt.
RichToolContents ==
  {<<>>, <<"text">>, <<"lookup">>, <<"text", "ghost", "lookup">>,
   <<"crash", "lookup">>, <<"lookup", "lookup">>}
RichEndContents ==
  {<<>>, <<"text">>, <<"text", "lookup", "text">>}

\* Responses the client gives to agents and workflows.
PlainToolContents == {<<"lookup">>}
PlainEndContents == {<<"text">>}

RetryOptions == {<<>>} \cup {<<n>> : n \in 1..MaxRetries}

PromptLists == UNION {[1..n -> PromptConfigs] : n \in 1..MaxPrompts}

AgentConfigs ==
  [defaultModel : {None, "workflowModel"}, nSteps : {0}, nAgents : {0},
   model : {None, "agentModel"}, maxRetries : RetryOptions,
   enableReflection : BOOLEAN, prompts : PromptLists]

WorkflowConfigs ==
  [defaultModel : {None, "workflowModel"}, nSteps : 1..MaxSteps,
   nAgents : 1..MaxAgents, model : {None}, maxRetries : {<<>>, <<1>>},
   enableReflection : BOOLEAN, prompts : [1..1 -> PromptConfigs]]

\* A PromptInstance constructed and run by the caller directly.
InitPrompt ==
  /\ cfg = NoConfig
  /\ client = [fails |-> 1, toolUses |-> MaxToolRounds,
               toolContents |-> RichToolContents,
               endContents |-> RichEndContents,
               endStops |-> {"end_turn", "max_tokens"},
               errors |-> {ApiError},
               usages |-> {ResponseUsage}]
  /\ hooks = [configured |-> PromptHooks, faults |-> MaxHookFaults]
  /\ clientLog = <<>>
  /\ events = <<>>
  /\ nextId = 2
  /\ ppc = "start"
  /\ pi = NewInstance(1, "prompt", 1, "promptModel", TRUE, <<"prompt">>)
  /\ presult = NoResult
  /\ apc = None /\ ag = NoAgent /\ aresult = NoAgentResult /\ execLog = <<>>
  /\ wpc = None /\ wf = NoWorkflow /\ status = "idle" /\ wresult = NoWorkflowResult
  /\ cache = NoCache

SpecPrompt == InitPrompt /\ [][NextPrompt]_vars

\* An Agent constructed and run by the caller directly.
InitAgent ==
  /\ cfg \in AgentConfigs
  /\ client = [fails |-> MaxFailures, toolUses |-> MaxAgentToolRounds,
               toolContents |-> PlainToolContents,
               endContents |-> PlainEndContents,
               endStops |-> {"end_turn"},
               errors |-> {ApiError},
               usages |-> {ResponseUsage}]
  /\ hooks = [configured |-> AgentHooks \cup {"beforeCall"}, faults |-> MaxHookFaults]
  /\ clientLog = <<>>
  /\ events = <<>>
  /\ nextId = 2
  /\ ppc = None /\ pi = NoInstance /\ presult = NoResult
  /\ apc = "start"
  /\ ag = NewAgent(1, cfg.defaultModel)
  /\ aresult = NoAgentResult
  /\ execLog = <<>>
  /\ wpc = None /\ wf = NoWorkflow /\ status = "idle" /\ wresult = NoWorkflowResult
  /\ cache = NoCache

SpecAgent == InitAgent /\ [][NextAgent]_vars

\* An AgentWorkflow constructed by the caller, before run is called.
Init ==
  /\ cfg \in WorkflowConfigs
  /\ client = [fails |-> MaxWfFailures, toolUses |-> MaxAgentToolRounds,
               toolContents |-> PlainToolContents,
               endContents |-> PlainEndContents,
               endStops |-> {"end_turn"},
               errors |-> {ApiError},
               usages |-> {ResponseUsage}]
  /\ hooks = [configured |-> AgentHooks \cup {"beforeCall"}, faults |-> MaxHookFaults]
  /\ clientLog = <<>>
  /\ events = <<>>
  /\ nextId = 1
  /\ ppc = None /\ pi = NoInstance /\ presult = NoResult
  /\ apc = None /\ ag = NoAgent /\ aresult = NoAgentResult /\ execLog = <<>>
  /\ wpc = "idle" /\ wf = NoWorkflow /\ status = "idle" /\ wresult = NoWorkflowResult
  /\ cache = NoCache

Spec == Init /\ [][Next]_vars

\* One workflow instance of a single step, run repeatedly.
InitRuns == Init /\ cfg.nSteps = 1

NextRuns == Next \/ AW_RunAgain

SpecRuns == InitRuns /\ [][NextRuns]_vars

\* A workflow whose model client rejects with an Error or with a falsy
\* value.
InitThrown ==
  /\ cfg \in WorkflowConfigs
  /\ client = [fails |-> MaxWfFailures, toolUses |-> MaxAgentToolRounds,
               toolContents |-> PlainToolContents,
               endContents |-> PlainEndContents,
               endStops |-> {"end_turn"},
               errors |-> {ApiError, FalsyError},
               usages |-> {ResponseUsage}]
  /\ hooks = [configured |-> AgentHooks \cup {"beforeCall"}, faults |-> MaxHookFaults]
  /\ clientLog = <<>>
  /\ events = <<>>
  /\ nextId = 1
  /\ ppc = None /\ pi = NoInstance /\ presult = NoResult
  /\ apc = None /\ ag = NoAgent /\ aresult = NoAgentResult /\ execLog = <<>>
  /\ wpc = "idle" /\ wf = NoWorkflow /\ status = "idle" /\ wresult = NoWorkflowResult
  /\ cache = NoCache

SpecThrown == InitThrown /\ [][Next]_vars

\* A directly run PromptInstance whose caller keeps assigning to the config
\* after construction. cfg is the caller's PromptConfig object, pi.config
\* the frozen copy, hooks the nested hooks object both refer to;
\* cfg.boundHooks remembers the hooks it held when the instance was built.
InitFrozen ==
  /\ \E hasHooks \in BOOLEAN :
       \E bound \in (IF hasHooks THEN SUBSET PromptHooks ELSE {{}}) :
         /\ cfg = [user |-> <<"prompt">>, model |-> "promptModel", boundHooks |-> bound,
                   mutations |-> MaxMutations]
         /\ hooks = [configured |-> bound, faults |-> MaxHookFaults]
         /\ pi = NewInstance(1, "prompt", 1, "promptModel", hasHooks, <<"prompt">>)
  /\ client = [fails |-> 1, toolUses |-> MaxToolRounds,
               toolContents |-> RichToolContents,
               endContents |-> RichEndContents,
               endStops |-> {"end_turn", "max_tokens"},
               errors |-> {ApiError},
               usages |-> {ResponseUsage}]
  /\ clientLog = <<>>
  /\ events = <<>>
  /\ nextId = 2
  /\ ppc = "start"
  /\ presult = NoResult
  /\ apc = None /\ ag = NoAgent /\ aresult = NoAgentResult /\ execLog = <<>>
  /\ wpc = None /\ wf = NoWorkflow /\ status = "idle" /\ wresult = NoWorkflowResult
  /\ cache = NoCache

\* config.user = ... / config.model = ... on the caller's object: the
\* instance holds a spread copy, which is not touched.
MutateOriginal ==
  /\ ppc # "settled"
  /\ cfg.mutations > 0
  /\ \E field \in {"user", "model"} :
       cfg' = [cfg EXCEPT ![field] = IF field = "user" THEN <<"mutated">> ELSE "mutated",
                          !.mutations = @ - 1]
  /\ UNCHANGED <<client, hooks, clientLog, events, nextId, ppc, pi, presult,
                 agentVars, wfVars>>
  /\ UNCHANGED cache

\* instance.config.user = ...: the copy is frozen, the assignment throws a
\* TypeError at the caller and changes nothing.
MutateInstance ==
  /\ ppc # "settled"
  /\ cfg.mutations > 0
  /\ cfg' = [cfg EXCEPT !.mutations = @ - 1]
  /\ UNCHANGED <<client, hooks, clientLog, events, nextId, ppc, pi, presult,
                 agentVars, wfVars>>
  /\ UNCHANGED cache

\* config.hooks.h = ... or instance.config.hooks.h = ... (or delete): the
\* freeze is shallow and the copy shares the hooks object, which changes.
MutateHooks ==
  /\ ppc # "settled"
  /\ cfg.mutations > 0
  /\ pi.hasHooks
  /\ cfg' = [cfg EXCEPT !.mutations = @ - 1]
  /\ \E h \in PromptHooks :
       hooks' = [hooks EXCEPT !.configured = IF h \in @ THEN @ \ {h} ELSE @ \cup {h}]
  /\ UNCHANGED <<client, clientLog, events, nextId, ppc, pi, presult,
                 agentVars, wfVars>>
  /\ UNCHANGED cache

NextFrozen ==
  \/ NextPrompt
  \/ MutateOriginal
  \/ MutateInstance
  \/ MutateHooks

SpecFrozen == InitFrozen /\ [][NextFrozen]_vars

\* A directly run agent whose beforePrompt and onError hooks write to the
\* PromptConfig objects of the agent's config.
InitHooked ==
  /\ cfg \in AgentConfigs
  /\ client = [fails |-> MaxFailures, toolUses |-> MaxAgentToolRounds,
               toolContents |-> PlainToolContents,
               endContents |-> PlainEndContents,
               endStops |-> {"end_turn"},
               errors |-> {ApiError},
               usages |-> {ResponseUsage}]
  /\ hooks = [configured |-> {"beforePrompt", "beforePrompt:mutate", "onError",
                              "onError:mutate"},
              faults |-> MaxHookFaults]
  /\ clientLog = <<>>
  /\ events = <<>>
  /\ nextId = 2
  /\ ppc = None /\ pi = NoInstance /\ presult = NoResult
  /\ apc = "start"
  /\ ag = NewAgent(1, cfg.defaultModel)
  /\ aresult = NoAgentResult
  /\ execLog = <<>>
  /\ wpc = None /\ wf = NoWorkflow /\ status = "idle" /\ wresult = NoWorkflowResult
  /\ cache = NoCache

SpecHooked == InitHooked /\ [][NextAgent]_vars

InitCache ==
  /\ cfg = NoConfig
  /\ client = [fails |-> 0, toolUses |-> 0,
               toolContents |-> PlainToolContents,
               endContents |-> PlainEndContents,
               endStops |-> {"end_turn"},
               errors |-> {ApiError},
               usages |-> {ResponseUsage}]
  /\ hooks = [configured |-> {}, faults |-> 0]
  /\ clientLog = <<>>
  /\ events = <<>>
  /\ nextId = 1
  /\ ppc = None /\ pi = NoInstance /\ presult = NoResult
  /\ apc = None /\ ag = NoAgent /\ aresult = NoAgentResult /\ execLog = <<>>
  /\ wpc = None /\ wf = NoWorkflow /\ status = "idle" /\ wresult = NoWorkflowResult
  /\ cache = NewCache

SpecCache == InitCache /\ [][NextCache]_vars

\* An Agent whose config.maxRetries is negative (the option is a plain
\* number and is not validated).
NegativeRetryConfigs ==
  [defaultModel : {"workflowModel"}, nSteps : {0}, nAgents : {0},
   model : {None, "agentModel"}, maxRetries : {<<-1>>},
   enableReflection : BOOLEAN, prompts : PromptLists]

InitNegative ==
  /\ cfg \in NegativeRetryConfigs \cup AgentConfigs
  /\ client = [fails |-> 1, toolUses |-> MaxAgentToolRounds,
               toolContents |-> PlainToolContents,
               endContents |-> PlainEndContents,
               endStops |-> {"end_turn"},
               errors |-> {ApiError},
               usages |-> {ResponseUsage}]
  /\ hooks = [configured |-> AgentHooks \cup {"beforeCall"}, faults |-> MaxHookFaults]
  /\ clientLog = <<>>
  /\ events = <<>>
  /\ nextId = 2
  /\ ppc = None /\ pi = NoInstance /\ presult = NoResult
  /\ apc = "start"
  /\ ag = NewAgent(1, cfg.defaultModel)
  /\ aresult = NoAgentResult
  /\ execLog = <<>>
  /\ wpc = None /\ wf = NoWorkflow /\ status = "idle" /\ wresult = NoWorkflowResult
  /\ cache = NoCache

SpecNegative == InitNegative /\ [][NextAgent]_vars

\* An Agent run against a client that answers tool_use on every call, for
\* as many calls as its script is long (MaxCalls), next to an ordinary client.
\* Nothing fails in the run against the first: the client never rejects and
\* no hook throws.
MaxCalls == 3

EndlessClient ==
  [fails |-> 0, toolUses |-> MaxCalls,
   toolContents |-> {<<"lookup">>, <<"crash", "ghost">>, <<>>},
   endContents |-> PlainEndContents,
   endStops |-> {},
   errors |-> {ApiError},
   usages |-> {ResponseUsage}]

OrdinaryClient ==
  [fails |-> 1, toolUses |-> 1,
   toolContents |-> PlainToolContents,
   endContents |-> PlainEndContents,
   endStops |-> {"end_turn"},
   errors |-> {ApiError},
   usages |-> {ResponseUsage}]

InitEndless ==
  /\ cfg \in [defaultModel : {None}, nSteps : {0}, nAgents : {0},
              model : {None, "agentModel"}, maxRetries : {<<>>, <<1>>},
              enableReflection : BOOLEAN, prompts : [1..1 -> PromptConfigs]]
  /\ \/ /\ client = EndlessClient
        /\ hooks = [configured |-> AgentHooks \cup {"beforeCall"}, faults |-> 0]
        /\ cfg.model # None
     \/ /\ client = OrdinaryClient
        /\ hooks = [configured |-> AgentHooks \cup {"beforeCall"},
                    faults |-> MaxHookFaults]
  /\ clientLog = <<>>
  /\ events = <<>>
  /\ nextId = 2
  /\ ppc = None /\ pi = NoInstance /\ presult = NoResult
  /\ apc = "start"
  /\ ag = NewAgent(1, cfg.defaultModel)
  /\ aresult = NoAgentResult
  /\ execLog = <<>>
  /\ wpc = None /\ wf = NoWorkflow /\ status = "idle" /\ wresult = NoWorkflowResult
  /\ cache = NoCache

SpecEndless == InitEndless /\ [][NextAgent]_vars

\* Usages a client may report: the two mandatory counters and any of the
\* optional ones, a reported 0 included.
Usages ==
  {usage \in UNION {[{"inputTokens", "outputTokens"} \cup optional -> {0, 1}] :
                      optional \in SUBSET CacheCounters} :
     usage["inputTokens"] = 1}

InitAggregate ==
  /\ cfg = NoConfig
  /\ client = [fails |-> 1, toolUses |-> 1,
               toolContents |-> PlainToolContents,
               endContents |-> PlainEndContents,
               endStops |-> {"end_turn"},
               errors |-> {ApiError},
               usages |-> Usages]
  /\ hooks = [configured |-> {}, faults |-> 0]
  /\ clientLog = <<>>
  /\ events = <<>>
  /\ nextId = 2
  /\ ppc = "start"
  /\ pi = NewInstance(1, "prompt", 1, "promptModel", FALSE, <<"prompt">>)
  /\ presult = NoResult
  /\ apc = None /\ ag = NoAgent /\ aresult = NoAgentResult /\ execLog = <<>>
  /\ wpc = None /\ wf = NoWorkflow /\ status = "idle" /\ wresult = NoWorkflowResult
  /\ cache = NoCache

SpecAggregate == InitAggregate /\ [][NextPrompt]_vars

\* Streams a client may deliver: up to MaxDeltas events, text deltas or not.
MaxDeltas == 2

\* The texts of the deltas: one character, several, none.
Tokens == {<<"a">>, <<"b", "c">>, <<>>}

StreamEvents == {StreamEvent("text", token) : token \in Tokens}
                  \cup {StreamEvent("other", <<>>)}

Streams == UNION {[1..n -> StreamEvents] : n \in 0..MaxDeltas}

InitStreaming ==
  /\ cfg = NoConfig
  /\ \E stream \in Streams, fails \in {0, 1} :
       client = [fails |-> fails, toolUses |-> 0,
                 toolContents |-> PlainToolContents,
                 endContents |-> PlainEndContents,
                 endStops |-> {"end_turn"},
                 errors |-> {ApiError},
                 usages |-> {ResponseUsage},
                 stream |-> stream]
  /\ \E configured \in SUBSET PromptHooks :
       hooks = [configured |-> configured, faults |-> MaxHookFaults]
  /\ clientLog = <<>>
  /\ events = <<>>
  /\ nextId = 2
  /\ ppc = "streamStart"
  /\ pi = NewInstance(1, "prompt", 1, "promptModel", TRUE, <<"prompt">>)
  /\ presult = NoResult
  /\ apc = None /\ ag = NoAgent /\ aresult = NoAgentResult /\ execLog = <<>>
  /\ wpc = None /\ wf = NoWorkflow /\ status = "idle" /\ wresult = NoWorkflowResult
  /\ cache = NoCache

SpecStreaming == InitStreaming /\ [][NextStreaming]_vars

\* Templates and inputs for interpolation.  A template is authored as a
\* list of pieces: literal text, or a placeholder for a path of keys,
\* written with or without blanks around the path.
MaxPieces == 2

TextPiece(str) == [kind |-> "text", s |-> str, path |-> <<>>, pad |-> <<>>]
Placeholder(path, pad) == [kind |-> "placeholder", s |-> <<>>, path |-> path,
                           pad |-> pad]

Paths ==
  {<<<<"a">>>>, <<<<"b">>>>, <<<<"input">>>>, <<<<"constructor">>>>,
   <<<<"a">>, <<"a">>>>, <<<<"a">>, <<"b">>>>, <<<<"a">>, <<"a">>, <<"a">>>>}

Pieces ==
  {TextPiece(str) : str \in {<<"x">>, <<"}">>, <<"{", "x">>}}
    \cup {Placeholder(path, <<>>) : path \in Paths}
    \cup {Placeholder(<<<<"a">>>>, <<" ">>), Placeholder(<<<<"a">>, <<"a">>>>, <<" ">>)}

SystemPieces ==
  {TextPiece(<<"x">>), Placeholder(<<<<"a">>>>, <<>>),
   Placeholder(<<<<"a">>, <<"b">>>>, <<>>)}

\* The keys of a path joined by dots.
RECURSIVE Dotted(_)
Dotted(path) ==
  IF Len(path) = 1 THEN path[1] ELSE path[1] \o <<".">> \o Dotted(Tail(path))

\* The text of a piece in the template.
Render(piece) ==
  IF piece.kind = "text" THEN piece.s
  ELSE <<"{", "{">> \o piece.pad \o Dotted(piece.path) \o piece.pad \o <<"}", "}">>

\* The template a list of pieces stands for.
RECURSIVE Template(_)
Template(pieces) ==
  IF pieces = <<>> THEN <<>> ELSE Render(Head(pieces)) \o Template(Tail(pieces))

\* { a: { a: ... leaf } } with the given number of levels.
RECURSIVE Nest(_, _)
Nest(depth, leaf) ==
  IF depth = 0 THEN leaf ELSE Obj([key \in {<<"a">>} |-> Nest(depth - 1, leaf)])

Leaves ==
  {Str(<<"x">>), Str(<<>>), Str(<<"{", "{", "a", "}", "}">>), Num(<<"0">>),
   Num(<<"7">>), Null, Undefined}

Inputs == {Nest(depth, leaf) : depth \in {0, 1, 2}, leaf \in Leaves}

PieceLists(S, n) == UNION {[1..k -> S] : k \in 0..n}

InitInterpolate ==
  /\ \E user \in PieceLists(Pieces, MaxPieces), system \in PieceLists(SystemPieces, 1),
        input \in Inputs :
       /\ cfg = [userPieces |-> user, systemPieces |-> system]
       /\ pi = [NewInstance(1, "prompt", 1, "promptModel", FALSE, Template(user))
                  EXCEPT !.config.system = Str(Template(system)), !.input = input]
  /\ client = [fails |-> 0, toolUses |-> 0,
               toolContents |-> PlainToolContents,
               endContents |-> PlainEndContents,
               endStops |-> {"end_turn"},
               errors |-> {ApiError},
               usages |-> {ResponseUsage}]
  /\ hooks = [configured |-> {}, faults |-> 0]
  /\ clientLog = <<>>
  /\ events = <<>>
  /\ nextId = 2
  /\ ppc = "start"
  /\ presult = NoResult
  /\ apc = None /\ ag = NoAgent /\ aresult = NoAgentResult /\ execLog = <<>>
  /\ wpc = None /\ wf = NoWorkflow /\ status = "idle" /\ wresult = NoWorkflowResult
  /\ cache = NoCache

NextInterpolate ==
  \/ PI_Start
  \/ PI_CallAnswers

SpecInterpolate == InitInterpolate /\ [][NextInterpolate]_vars

-----------------------------------------------------------------------------
(* Properties *)

\* PromptInstance constructions of the given kind for prompt idx.
Executions(kind, idx) ==
  Cardinality({k \in 1..Len(execLog) :
                 execLog[k].kind = kind /\ execLog[k].idx = idx})

\* The retry loop of the current prompt ended with an error-carrying result.
PromptFailed ==
  apc = "promptEnd" /\ ag.result # <<>> /\ Truthy(ag.result[1].error)

\* C1: every prompt of an agent is executed at most maxRetries + 1 times
\* (reflection runs not counted), whatever earlier prompts did, and a prompt
\* whose retry loop ends in failure was executed exactly maxRetries + 1 times.
C1_PerPromptBudget ==
  /\ \A i \in 1..Len(cfg.prompts) : Executions("prompt", i) <= maxRetries + 1
  /\ PromptFailed => Executions("prompt", ag.idx) = maxRetries + 1

\* The second prompt exhausts its own budget although the first one had
\* already used up a retry.
C1_Witness ==
  /\ PromptFailed
  /\ ag.idx = 2
  /\ maxRetries = 1
  /\ Executions("prompt", 1) = 2
  /\ Executions("prompt", 2) = 2
  /\ ag.retryCount = 3

ReflectionBounded ==
  /\ \A i \in 1..Len(cfg.prompts) : Executions("reflection", i) <= maxRetries
  /\ \A k \in 1..Len(execLog) :
       execLog[k].kind = "reflection" =>
         /\ k > 1
         /\ execLog[k - 1].kind = "prompt"
         /\ execLog[k - 1].idx = execLog[k].idx
  /\ PromptFailed => Executions("reflection", ag.idx) = maxRetries
  /\ (apc = "settled" /\ aresult.state = "resolved"
        /\ \E k \in 1..Len(ag.promptResults) : Truthy(ag.promptResults[k].error))
       => Truthy(aresult.error)

\* A measure of the work Agent.run has left: the prompts and attempts that
\* remain, the position within the attempt, and within the running
\* PromptInstance the tool_use answers the client has left and the blocks
\* still to be handled.
InstanceMeasure ==
  LET longest == CHOOSE n \in {Len(c) : c \in client.toolContents} :
                   \A c \in client.toolContents : Len(c) <= n
      round == longest + 4
  IN CASE ppc = "start" -> client.toolUses * round + 3
       [] ppc = "call" -> client.toolUses * round + 2
       [] ppc = "tools" -> client.toolUses * round + 3 + Len(pi.pending)
       [] OTHER -> 0

InstanceMeasureBound ==
  LET longest == CHOOSE n \in {Len(c) : c \in client.toolContents} :
                   \A c \in client.toolContents : Len(c) <= n
  IN (MaxToolRounds + 1) * (longest + 4)

AgentMeasure ==
  LET remaining == IF ag.idx > Len(cfg.prompts) THEN 0
                   ELSE Len(cfg.prompts) - ag.idx + 1
      attemptsLeft == maxRetries + 1 - ag.attempts
      slot(r, a, phase) == 3 + (r * (MaxRetries + 2) + a) * 5 + phase
  IN CASE apc = "start" -> slot(MaxPrompts + 1, 0, 5)
       [] apc = "promptBegin" -> slot(remaining, MaxRetries + 1, 5)
       [] apc = "awaitReflect" -> slot(remaining, attemptsLeft, 4)
       [] apc = "attempt" -> slot(remaining, attemptsLeft, 3)
       [] apc = "awaitPrompt" -> slot(remaining, attemptsLeft, 2)
       [] apc = "promptEnd" -> slot(remaining, attemptsLeft, 1)
       [] apc = "finish" -> 2
       [] apc = "catch" -> 1
       [] OTHER -> 0

RunMeasure == AgentMeasure * InstanceMeasureBound + InstanceMeasure

RECURSIVE RequestedTools(_)
RequestedTools(log) ==
  IF log = <<>> THEN <<>>
  ELSE SelectSeq(Head(log).content, isToolUseBlock) \o RequestedTools(Tail(log))

\* The run settled right after a response with a non-tool_use stop reason.
AnsweredToTheEnd ==
  /\ ppc = "settled"
  /\ presult.state = "resolved"
  /\ clientLog # <<>>
  /\ clientLog[Len(clientLog)].stop # "tool_use"

\* C3: when the client answers tool_use n times and then otherwise, the run
\* made n + 1 model calls (the n tool_use responses are exactly the first
\* n), and toolCalls holds one record per tool_use block of those n
\* responses, in response and block order, and none from the last response.
C3_ToolLoop ==
  AnsweredToTheEnd =>
    LET n == Cardinality({k \in 1..Len(clientLog) : clientLog[k].stop = "tool_use"})
    IN /\ Len(clientLog) = n + 1
       /\ \A k \in 1..n : clientLog[k].stop = "tool_use"
       /\ [k \in 1..Len(presult.toolCalls) |-> presult.toolCalls[k].toolName]
            = RequestedTools(SubSeq(clientLog, 1, n))

\* Two tool_use rounds with several blocks, and a final response that still
\* holds a tool_use block.
C3_Witness ==
  /\ AnsweredToTheEnd
  /\ Len(clientLog) = 3
  /\ Len(presult.toolCalls) >= 3
  /\ \E k \in 1..Len(clientLog[3].content) : isToolUseBlock(clientLog[3].content[k])

\* C4 as amended: a prompt whose own attempts all failed is the last prompt
\* the agent executes: its result is the last of promptResults and no
\* PromptInstance of a later prompt is constructed.
C4_ExhaustedPromptIsLast ==
  \A k \in 1..Len(ag.promptResults) :
    ag.promptResults[k].error = ApiError =>
      /\ k = Len(ag.promptResults)
      /\ \A j \in 1..Len(execLog) : execLog[j].idx <= k

\* The first of two prompts failed and the run returned.
C4_Witness ==
  /\ apc = "settled"
  /\ aresult.state = "resolved"
  /\ Len(cfg.prompts) = 2
  /\ Len(aresult.promptResults) = 1
  /\ aresult.promptResults[1].error = ApiError
  /\ ag.caught = NoError

\* C4 as stated: whenever a collected prompt result carries an error, it is
\* the last one and no later prompt was executed.
C4_ErrorStopsSequence ==
  \A k \in 1..Len(ag.promptResults) :
    Truthy(ag.promptResults[k].error) =>
      /\ k = Len(ag.promptResults)
      /\ \A j \in 1..Len(execLog) : execLog[j].idx <= k

\* C5: an agent result with an error is the last one collected in its step,
\* its step is the last one run, and run returns with status failed and
\* that error.
C5_WorkflowFailFast ==
  /\ \A k \in 1..Len(wf.agentResults) :
       Truthy(wf.agentResults[k].error) =>
         /\ k = Len(wf.agentResults)
         /\ wpc \in {"agentStart", "stepEnd", "settled"}
         /\ wpc = "agentStart" => wf.agentIdx > cfg.nAgents
         /\ wpc = "settled" =>
              /\ status = "failed"
              /\ wresult.state = "resolved"
              /\ wresult.error = wf.agentResults[k].error
  /\ (wpc = "settled" /\ wresult.state = "resolved") =>
       \A st \in 1..Len(wresult.stepResults) :
         \A k \in 1..Len(wresult.stepResults[st].agentResults) :
           Truthy(wresult.stepResults[st].agentResults[k].error) =>
             /\ st = Len(wresult.stepResults)
             /\ k = Len(wresult.stepResults[st].agentResults)
             /\ Cardinality({e \in 1..Len(events) : events[e][1] = "stepStart"}) = st
             /\ Cardinality({e \in 1..Len(events) : events[e][1] = "agentRunStart"})
                  = cfg.nAgents * (st - 1) + k

\* The first agent of the first step failed in a workflow of two steps of
\* two agents.
C5_Witness ==
  /\ wpc = "settled"
  /\ cfg.nSteps = 2
  /\ cfg.nAgents = 2
  /\ status = "failed"
  /\ Len(wresult.stepResults) = 1
  /\ Len(wresult.stepResults[1].agentResults) = 1
  /\ wresult.error = ApiError

StartEvents ==
  {"stepStart", "agentRunStart", "promptInstanceStart", "toolCallStart",
   "reflectionStart"}

StartOf(type) ==
  CASE type = "stepEnd" -> "stepStart"
    [] type = "agentRunEnd" -> "agentRunStart"
    [] type = "promptInstanceEnd" -> "promptInstanceStart"
    [] type = "toolCallEnd" -> "toolCallStart"
    [] type = "reflectionEnd" -> "reflectionStart"
    [] OTHER -> None

\* What may directly enclose an event of the given start type.
Encloser(type) ==
  CASE type = "stepStart" -> {None}
    [] type = "agentRunStart" -> {"stepStart"}
    [] type = "promptInstanceStart" -> {"agentRunStart", "reflectionStart"}
    [] type = "toolCallStart" -> {"promptInstanceStart"}
    [] type = "reflectionStart" -> {"agentRunStart"}
    [] OTHER -> {}

RECURSIVE ProperlyNested(_, _)
ProperlyNested(evs, open) ==
  IF evs = <<>> THEN open = <<>>
  ELSE LET e == Head(evs)
       IN IF e[1] \in StartEvents
          THEN /\ (IF open = <<>> THEN None ELSE Head(open)[1]) \in Encloser(e[1])
               /\ ProperlyNested(Tail(evs), <<e>> \o open)
          ELSE /\ open # <<>>
               /\ Head(open) = <<StartOf(e[1]), e[2]>>
               /\ ProperlyNested(Tail(evs), Tail(open))

\* C6: once AgentWorkflow.run has settled, the events the observer saw are
\* properly nested: every stepStart, agentRunStart, promptInstanceStart,
\* toolCallStart and reflectionStart is closed by its end event, innermost
\* first, steps enclosing agent runs enclosing prompt, reflection and tool
\* events.
C6_EventsNested ==
  wpc = "settled" => ProperlyNested(events, <<>>)

\* C7: PromptInstance.run never rejects.
C7_PromptRunResolves ==
  ppc = "settled" => presult.state = "resolved"

\* C8: Agent.run never rejects.
C8_AgentRunResolves ==
  apc = "settled" => aresult.state = "resolved"

\* C9: AgentWorkflow.run never rejects, and when Agent.run rejected inside
\* a step the status is failed and the result carries that exception.
C9_WorkflowRunResolves ==
  /\ wpc = "settled" => wresult.state = "resolved"
  /\ (wpc = "settled" /\ aresult.state = "rejected") =>
       /\ status = "failed"
       /\ wresult.error = aresult.error

\* Agent.run rejected and the workflow returned.
C9_Witness ==
  /\ wpc = "settled"
  /\ aresult.state = "rejected"
  /\ aresult.error = HookError
  /\ wresult.state = "resolved"

\* The first present of the prompt's, the agent's and the inherited model.
FirstPresent(i) ==
  IF cfg.prompts[i].model # None THEN cfg.prompts[i].model
  ELSE IF cfg.model # None THEN cfg.model
  ELSE ag.parentModel

\* The run was ended by the missing-model error of the current prompt.
NoModelForPrompt ==
  /\ apc = "settled"
  /\ aresult.state = "resolved"
  /\ ag.caught = NoModelError
  /\ ag.idx <= Len(cfg.prompts)
  /\ FirstPresent(ag.idx) = None

\* C10 as amended: every prompt execution is bound to the first present of
\* prompt > agent > workflow default; no PromptInstance is constructed for
\* a prompt with all three absent, nor for a later prompt; and the result
\* returned for such a prompt carries the missing-model error and the
\* results of the earlier prompts only.
C10_ModelResolution ==
  /\ \A k \in 1..Len(execLog) :
       /\ execLog[k].kind = "prompt" =>
            execLog[k].model = FirstPresent(execLog[k].idx)
       /\ \A i \in 1..execLog[k].idx : FirstPresent(i) # None
  /\ NoModelForPrompt =>
       /\ aresult.error = NoModelError
       /\ Len(aresult.promptResults) = ag.idx - 1

\* The second prompt has no model although the first had an override.
C10_Witness ==
  /\ NoModelForPrompt
  /\ ag.idx = 2
  /\ Len(aresult.promptResults) = 1
  /\ execLog[1].model = "promptModel"

\* C10 as stated: a result returned for a prompt with all three models
\* absent has no prompt results, and no prompt was executed.
C10_NoResultsWithoutModel ==
  NoModelForPrompt =>
    /\ aresult.error = NoModelError
    /\ aresult.promptResults = <<>>
    /\ execLog = <<>>

\* C11: over any sequence of run invocations the status changes only along
\* idle -> running, running -> completed and running -> failed.
C11_StatusMachine ==
  [][status' # status =>
       <<status, status'>> \in {<<"idle", "running">>, <<"running", "completed">>,
                                <<"running", "failed">>}]_vars

\* The error of the result with which the PromptInstance of the given id
\* ended, as carried by its promptInstanceEnd event; empty while it runs.
EndErrors(id) ==
  {events[e][3] : e \in {e \in 1..Len(events) :
                           events[e][1] = "promptInstanceEnd" /\ events[e][2] = id}}

\* Executions of the given kind that returned a result with an error.
FailedRuns(kind) ==
  Cardinality({k \in 1..Len(execLog) :
                 /\ execLog[k].kind = kind
                 /\ \E error \in EndErrors(execLog[k].id) : Truthy(error)})

ReflectionSucceeded(k) ==
  /\ execLog[k].kind = "reflection"
  /\ \E error \in EndErrors(execLog[k].id) : ~Truthy(error)

\* C13: after a reflection run that returned without error the failed prompt
\* is not executed again; once the onReflection hook has returned, the
\* reflection result is the prompt's result and reflectionMetadata names the
\* failed attempt; the result collected for that prompt does not carry the
\* attempt's error, and the agent moves to the next prompt.
C13_ReflectionAdopted ==
  LET rescued == {k \in 1..Len(execLog) : ReflectionSucceeded(k)}
  IN /\ \A k \in rescued :
          \A j \in (k + 1)..Len(execLog) : execLog[j].idx > execLog[k].idx
     /\ (apc = "promptEnd" /\ Len(execLog) \in rescued) =>
          /\ execLog[Len(execLog)].idx = ag.idx
          /\ ag.result = <<presult>>
          /\ ~Truthy(presult.error)
          /\ ag.reflectionMetadata =
               <<[originalError |-> ApiError,
                  reflectionPromptId |-> execLog[Len(execLog) - 1].id,
                  reflectionResult |-> presult]>>
     /\ \A k \in rescued :
          LET i == execLog[k].idx
          IN i <= Len(ag.promptResults) =>
               /\ ag.promptResults[i].error \in {NoError, HookError}
               /\ ag.promptResults[i].content # <<>>
               /\ (ag.promptResults[i].error = NoError /\ apc = "promptBegin"
                     /\ i = Len(ag.promptResults)) => ag.idx = i + 1

\* The first of two prompts was rescued by its reflection run, and the run
\* completed without error.
C13_Witness ==
  /\ apc = "settled"
  /\ aresult.state = "resolved"
  /\ aresult.error = NoError
  /\ Len(aresult.promptResults) = 2
  /\ aresult.retryCount = 1
  /\ Len(execLog) = 3
  /\ ReflectionSucceeded(2)
  /\ aresult.reflectionMetadata # <<>>
  /\ aresult.promptResults[1] = aresult.reflectionMetadata[1].reflectionResult

\* C14: every reflection run executes on the model its prompt resolves to
\* (prompt override, else agent model, else workflow default), and a run is
\* ended by the missing-model error only for a prompt that has none of the
\* three.
C14_ReflectionModel ==
  /\ \A k \in 1..Len(execLog) :
       execLog[k].kind = "reflection" =>
         execLog[k].model = FirstPresent(execLog[k].idx)
  /\ (apc = "settled" /\ aresult.state = "resolved" /\ ag.caught = NoModelError
        /\ ag.idx <= Len(cfg.prompts)) =>
       FirstPresent(ag.idx) = None

\* The run was settled by a model call that failed.
TransportFailed ==
  ppc = "settled" /\ presult.state = "resolved" /\ presult.error = ApiError

\* C15: a run settled by a failed model call has empty content, the error
\* attached, the element-wise sum of the usage of the calls that had
\* returned, and one tool-call record per tool_use block of the responses
\* received before the failure; its end event carries the error.
C15_TransportFailure ==
  TransportFailed =>
    /\ presult.content = <<>>
    /\ presult.tokenUsage =
         [inputTokens |-> Len(clientLog) * ResponseUsage.inputTokens,
          outputTokens |-> Len(clientLog) * ResponseUsage.outputTokens]
    /\ [k \in 1..Len(presult.toolCalls) |-> presult.toolCalls[k].toolName]
         = RequestedTools(clientLog)
    /\ events[Len(events)] = EndEvent(pi.id, ApiError)

\* The model call after the second tool round failed.
C15_Witness ==
  /\ TransportFailed
  /\ Len(clientLog) = 2
  /\ Len(presult.toolCalls) >= 3
  /\ \E k \in 1..Len(presult.toolCalls) : Truthy(presult.toolCalls[k].error)

\* The tool-result entries the model has been sent: the content of the user
\* turn that closes the messages of every call after the first.
RECURSIVE SentResults(_)
SentResults(log) ==
  IF log = <<>> THEN <<>>
  ELSE LET m == log[Len(log)].messages
       IN SentResults(SubSeq(log, 1, Len(log) - 1))
            \o (IF Len(m) > 1 THEN m[Len(m)].content ELSE <<>>)

\* C16: a tool call whose handler throws, whose onTool hook throws or whose
\* tool has no handler is recorded with that error; the next model call is
\* sent one tool-result entry per tool_use block of the responses so far,
\* the entry of a failed call being its stringified error; and no run is
\* settled by such an error: a settled run ended on a response outside the
\* tool loop or on a failed model call.
C16_ToolErrorsReturned ==
  LET sent == SentResults(clientLog)
  IN /\ \A j \in 1..Len(pi.toolCalls) :
          LET c == pi.toolCalls[j]
          IN /\ c.toolName \notin Registered => c.error = UnknownTool
             /\ (c.toolName \in Registered /\ HandlerThrows(c.toolName)) =>
                  c.error \in {HandlerError, HookError}
     /\ Len(sent) <= Len(pi.toolCalls)
     /\ \A j \in 1..Len(sent) :
          LET c == pi.toolCalls[j]
          IN sent[j].content = IF c.error # NoError THEN <<"error", c.error>>
                               ELSE <<"output", c.toolName>>
     /\ \A k \in 2..Len(clientLog) :
          LET m == clientLog[k].messages
          IN /\ m[Len(m)].role = "user"
             /\ m[Len(m) - 1] = Message("assistant", clientLog[k - 1].content)
     /\ Len(clientLog) > 1 =>
          Len(sent) = Len(RequestedTools(SubSeq(clientLog, 1, Len(clientLog) - 1)))
     /\ (ppc = "settled" /\ presult.state = "resolved") =>
          /\ presult.error \notin {HandlerError, UnknownTool}
          /\ AnsweredToTheEnd \/ presult.error = ApiError

\* A run with an unknown tool, a throwing handler and a throwing onTool hook
\* that went on to a final answer without error.
C16_Witness ==
  /\ AnsweredToTheEnd
  /\ presult.error = NoError
  /\ presult.content # <<>>
  /\ Len(clientLog) = 3
  /\ {UnknownTool, HandlerError, HookError}
       \subseteq {presult.toolCalls[k].error : k \in 1..Len(presult.toolCalls)}

\* The settled run holds the record of a tool call whose handler threw.
HandlerThrew ==
  /\ ppc = "settled"
  /\ presult.state = "resolved"
  /\ \E k \in 1..Len(presult.toolCalls) : presult.toolCalls[k].error = HandlerError

PromptResultsOf(result) ==
  UNION {UNION {{result.stepResults[st].agentResults[a].promptResults[p] :
                   p \in 1..Len(result.stepResults[st].agentResults[a].promptResults)} :
                a \in 1..Len(result.stepResults[st].agentResults)} :
         st \in 1..Len(result.stepResults)}

\* C18: a prompt execution that failed with a falsy value is treated as a
\* failure by the layers above: the retry loop ends with its result only
\* after maxRetries + 1 counted attempts, an agent result that holds it has
\* an error, and a workflow result that holds it has an error and status
\* failed.
C18_FalsyFailureSurfaces ==
  /\ (apc = "promptEnd" /\ ag.result # <<>> /\ ag.result[1].error = FalsyError) =>
       (ag.attempts = maxRetries + 1 /\ ag.retryCount >= 1)
  /\ (apc = "settled" /\ aresult.state = "resolved"
        /\ \E p \in 1..Len(aresult.promptResults) :
              aresult.promptResults[p].error = FalsyError) =>
       Truthy(aresult.error)
  /\ (wpc = "settled" /\ wresult.state = "resolved"
        /\ \E r \in PromptResultsOf(wresult) : r.error = FalsyError) =>
       (status = "failed" /\ Truthy(wresult.error))

\* C19: a settled agent run returns every prompt result it had collected,
\* with their usage; a settled workflow run returns every step it had
\* started to execute, the agent results collected in the last of them
\* included.
C19_PartialProgress ==
  /\ (apc = "settled" /\ aresult.state = "resolved") =>
       /\ aresult.promptResults = ag.promptResults
       /\ aresult.tokenUsage =
            aggregateTokenUsage([i \in 1..Len(ag.promptResults) |->
                                   ag.promptResults[i].tokenUsage])
  /\ (wpc = "settled" /\ wresult.state = "resolved" /\ wf.agentResults # <<>>) =>
       /\ wresult.stepResults # <<>>
       /\ wresult.stepResults[Len(wresult.stepResults)].agentResults = wf.agentResults

\* C20: whatever the caller assigns after construction, the run sends the
\* user turn of the bound template on the bound model, and only hooks that
\* were bound at construction take part in it: the run is rejected only by
\* a bound beforeCall, a tool call fails on a hook only with a bound onTool,
\* and the result carries a hook's error only with a bound afterCall.
C20_BoundConfigUnchanged ==
  /\ pi.config.user = <<"prompt">>
  /\ pi.model = "promptModel"
  /\ clientLog # <<>> => clientLog[1].messages[1] = Message("user", <<"prompt">>)
  /\ presult.state = "rejected" => "beforeCall" \in cfg.boundHooks
  /\ (\E k \in 1..Len(pi.toolCalls) : pi.toolCalls[k].error = HookError) =>
       "onTool" \in cfg.boundHooks
  /\ (presult.state = "resolved" /\ presult.error = HookError) =>
       "afterCall" \in cfg.boundHooks

\* C30: recorded reflection metadata names the reflection execution: its
\* reflectionPromptId is the id of a PromptInstance built by reflect, the one
\* whose start and end events lie between reflectionStart and reflectionEnd.
C30_ReflectionPromptId ==
  ag.reflectionMetadata # <<>> =>
    \E k \in 1..Len(execLog) :
      /\ execLog[k].kind = "reflection"
      /\ execLog[k].id = ag.reflectionMetadata[1].reflectionPromptId

\* Element-wise sum of the tokenUsage of a sequence of results.
RECURSIVE UsageSum(_)
UsageSum(results) ==
  IF results = <<>> THEN [inputTokens |-> 0, outputTokens |-> 0]
  ELSE LET rest == UsageSum(Tail(results))
       IN [inputTokens |-> Head(results).tokenUsage.inputTokens + rest.inputTokens,
           outputTokens |-> Head(results).tokenUsage.outputTokens + rest.outputTokens]

\* The indices of the results that carry an error.
WithError(results) == {i \in 1..Len(results) : Truthy(results[i].error)}

\* The agent run has returned a result.
AgentReturned == apc = "settled" /\ aresult.state = "resolved"

\* C23 as amended: tokenUsage of an AgentRunResult is the element-wise sum
\* over exactly the collected promptResults; error is the error of the first
\* collected result that carries one (absent if none does) when the run
\* returns normally, and the thrown value when it returns from its catch
\* block.
C23_AgentAggregation ==
  AgentReturned =>
    /\ aresult.tokenUsage = UsageSum(aresult.promptResults)
    /\ ag.caught = NoError =>
         LET failed == WithError(aresult.promptResults)
         IN /\ failed = {} => aresult.error = NoError
            /\ failed # {} =>
                 \E i \in failed :
                   /\ \A k \in failed : i <= k
                   /\ aresult.error = aresult.promptResults[i].error
    /\ ag.caught # NoError => aresult.error = ag.caught

\* Two collected results with different errors; a tool round took place in
\* an execution whose result was not collected.
C23_Witness ==
  /\ AgentReturned
  /\ ag.caught = NoError
  /\ Len(aresult.promptResults) = 2
  /\ aresult.promptResults[1].error = HookError
  /\ aresult.promptResults[2].error = ApiError
  /\ \E e \in 1..Len(events) : events[e][1] = "toolCallStart"
  /\ \A i \in 1..2 : aresult.promptResults[i].toolCalls = <<>>

\* C23 as stated: error is always that of the first collected result that
\* carries one, absent if none does.
C23_ErrorIsFirstResultError ==
  AgentReturned =>
    LET failed == WithError(aresult.promptResults)
    IN /\ failed = {} => aresult.error = NoError
       /\ failed # {} =>
            \E i \in failed :
              /\ \A k \in failed : i <= k
              /\ aresult.error = aresult.promptResults[i].error

\* The agent results of a sequence of step results, in order.
RECURSIVE AgentResultsOf(_)
AgentResultsOf(stepResults) ==
  IF stepResults = <<>> THEN <<>>
  ELSE Head(stepResults).agentResults \o AgentResultsOf(Tail(stepResults))

\* The workflow run has returned a result.
WorkflowReturned == wpc = "settled" /\ wresult.state = "resolved"

\* C24: tokenUsage of a WorkflowRunResult is the element-wise sum of the
\* tokenUsage of the agent results held in its stepResults, whether the run
\* completed, returned on a failed agent or returned from its catch block.
C24_WorkflowUsage ==
  WorkflowReturned =>
    wresult.tokenUsage = UsageSum(AgentResultsOf(wresult.stepResults))

\* A fail-fast return in the second step, whose failed agent had used
\* tokens before it failed.
C24_Witness ==
  /\ WorkflowReturned
  /\ status = "failed"
  /\ Len(wresult.stepResults) = 2
  /\ LET last == wresult.stepResults[2].agentResults
     IN /\ last # <<>>
        /\ Truthy(last[Len(last)].error)
        /\ last[Len(last)].tokenUsage.inputTokens > 0
  /\ wresult.stepResults[1].agentResults[1].tokenUsage.inputTokens > 0

\* The events of the given types, in delivery order.
EventsOf(types) ==
  LET Selected(e) == e[1] \in types
  IN SelectSeq(events, Selected)

\* C27: the step events alternate stepStart, stepEnd of the same step, and
\* once run has settled every stepStart has had its stepEnd.
C27_StepBracketed ==
  LET se == EventsOf({"stepStart", "stepEnd"})
  IN /\ \A k \in 1..Len(se) :
          IF k % 2 = 1 THEN se[k][1] = "stepStart"
          ELSE se[k] = <<"stepEnd", se[k - 1][2]>>
     /\ wpc = "settled" => Len(se) % 2 = 0

\* C29: once Agent.run has settled, every agentRunStart of that agent has
\* been followed by exactly one agentRunEnd of that agent.
C29_AgentRunBracketed ==
  LET ae == EventsOf({"agentRunStart", "agentRunEnd"})
  IN /\ \A k \in 1..Len(ae) :
          IF k % 2 = 1 THEN ae[k][1] = "agentRunStart"
          ELSE ae[k] = <<"agentRunEnd", ae[k - 1][2]>>
     /\ apc = "settled" => Len(ae) % 2 = 0

\* C21: every execution of an agent's prompt, the first attempt and every
\* retry, is bound to the user template as authored and sends it as the
\* first turn, whatever the agent's hooks did to the PromptConfig.
C21_TemplatesAsAuthored ==
  pi.kind = "prompt" =>
    /\ pi.config.user = <<"authored">>
    /\ clientLog # <<>> => clientLog[1].messages[1] = Message("user", <<"authored">>)

\* The value a path of keys leads to in a context: each key must be a
\* property of the object reached so far; undefined when one is not.
RECURSIVE Resolve(_, _)
Resolve(value, path) ==
  IF path = <<>> THEN value
  ELSE IF value.t = "object" /\ (Head(path) \in DOMAIN value.p
                                  \/ Head(path) \in DOMAIN ObjectPrototype)
  THEN Resolve(Get(value, Head(path)), Tail(path))
  ELSE Undefined

\* What a piece of the template must become.
Interpolated(piece, context) ==
  IF piece.kind = "text" THEN piece.s
  ELSE LET value == Resolve(context, piece.path)
       IN IF value \in {Null, Undefined} THEN Render(piece) ELSE String(value)

RECURSIVE InterpolatedAll(_, _)
InterpolatedAll(pieces, context) ==
  IF pieces = <<>> THEN <<>>
  ELSE Interpolated(Head(pieces), context) \o InterpolatedAll(Tail(pieces), context)

\* C22: in the request sent to the client, every placeholder of the user
\* template whose path leads, key by key, to a value other than null and
\* undefined is replaced by the string form of that value, every other
\* placeholder and all text outside placeholders is as authored, and the
\* same holds, independently, of the system template.
C22_Interpolation ==
  clientLog # <<>> =>
    LET context == Context(pi.input)
    IN /\ clientLog[1].messages[1]
            = Message("user", InterpolatedAll(cfg.userPieces, context))
       /\ clientLog[1].system
            = IF cfg.systemPieces = <<>> THEN Undefined
              ELSE Str(InterpolatedAll(cfg.systemPieces, context))

\* A request whose user template had a placeholder replaced by a value that
\* itself reads as a placeholder, followed by a placeholder left as it was,
\* and whose system template had its placeholder replaced.
C22_Witness ==
  /\ clientLog # <<>>
  /\ cfg.userPieces = <<Placeholder(<<<<"a">>, <<"a">>>>, <<" ">>),
                        Placeholder(<<<<"a">>, <<"b">>>>, <<>>)>>
  /\ cfg.systemPieces = <<Placeholder(<<<<"a">>>>, <<>>)>>
  /\ pi.input = Nest(2, Str(<<"{", "{", "a", "}", "}">>))
  /\ clientLog[1].messages[1].content
       = <<"{", "{", "a", "}", "}", "{", "{", "a", ".", "b", "}", "}">>
  /\ clientLog[1].system = Str(<<"[object Object]">>)


\* The usages the client reported, in order.
ReportedUsages == [k \in 1..Len(clientLog) |-> clientLog[k].usage]

\* The sum of a field over the usages that report it.
RECURSIVE SumOf(_, _)
SumOf(usages, field) ==
  IF usages = <<>> THEN 0
  ELSE (IF field \in DOMAIN Head(usages) THEN Head(usages)[field] ELSE 0)
         + SumOf(Tail(usages), field)

\* C25: the usage of a successful run, which aggregates the running total
\* with the usage of each response in turn, has inputTokens and outputTokens
\* equal to the sums over all responses, has each cache counter exactly when
\* at least one response reports it, then equal to the sum of the reported
\* values, and equals the aggregate of all reported usages taken at once.
C25_ElementwiseSum ==
  (presult.state = "resolved" /\ presult.error = NoError) =>
    LET total == presult.tokenUsage
    IN /\ total["inputTokens"] = SumOf(ReportedUsages, "inputTokens")
       /\ total["outputTokens"] = SumOf(ReportedUsages, "outputTokens")
       /\ \A counter \in CacheCounters :
            /\ counter \in DOMAIN total
                 <=> \E k \in 1..Len(clientLog) : counter \in DOMAIN clientLog[k].usage
            /\ counter \in DOMAIN total => total[counter] = SumOf(ReportedUsages, counter)
       /\ total = aggregateTokenUsage(ReportedUsages)


\* The positions of the result items among the items yielded.
ResultItems == {k \in 1..Len(pi.yielded) : pi.yielded[k][1] = "result"}

\* C26: once runStreaming has been read to its end, the items yielded are
\* tokens followed by exactly one result, which is the last item.
C26_TokensThenOneResult ==
  ppc = "settled" => ResultItems = {Len(pi.yielded)} /\ pi.yielded # <<>>

\* The promptInstanceEnd events of the given id after position k.
EndsAfter(k, id) ==
  {e \in (k + 1)..Len(events) :
     events[e][1] = "promptInstanceEnd" /\ events[e][2] = id}

\* C28: once run or runStreaming is over, because it settled or because the
\* consumer stopped reading, every promptInstanceStart has been followed by
\* exactly one promptInstanceEnd of the same promptId, which carries the
\* error of the final result.
C28_PromptBracketed ==
  ppc \in {"settled", "returned"} =>
    \A k \in 1..Len(events) :
      events[k][1] = "promptInstanceStart" =>
        /\ Cardinality(EndsAfter(k, events[k][2])) = 1
        /\ presult.state = "resolved"
        /\ \A e \in EndsAfter(k, events[k][2]) : events[e][3] = presult.error


\* C31: an agent run that returns a result without error has collected
\* exactly one result per configured prompt, has executed every configured
\* prompt at least once, and has executed the prompts in the configured
\* order.
C31_OneResultPerPrompt ==
  (AgentReturned /\ aresult.error = NoError) =>
    /\ Len(aresult.promptResults) = Len(cfg.prompts)
    /\ \A i \in 1..Len(cfg.prompts) :
         \E k \in 1..Len(execLog) : execLog[k].kind = "prompt" /\ execLog[k].idx = i
    /\ \A k \in 1..Len(execLog) : \A j \in 1..(k - 1) : execLog[j].idx <= execLog[k].idx


\* The number of times a prompt was executed again after an earlier
\* execution of the same prompt.
RECURSIVE Reexecutions(_)
Reexecutions(n) ==
  IF n = 0 THEN 0
  ELSE (IF Executions("prompt", n) > 1 THEN Executions("prompt", n) - 1 ELSE 0)
         + Reexecutions(n - 1)

\* C32: the retryCount of an AgentRunResult is the number of retries
\* performed, the number of times a prompt was executed again after a failed
\* attempt; it is 0 when no prompt was executed a second time.
C32_RetriesPerformed ==
  AgentReturned => aresult.retryCount = Reexecutions(Len(cfg.prompts))


\* The most recent set of the key has not been deleted or cleared since,
\* and its ttl, when one was given, has not elapsed.
Live(key) ==
  /\ cache.latest[key] # <<>>
  /\ cache.latest[key][1].ttl # <<>> =>
       cache.now <= cache.latest[key][1].at + cache.latest[key][1].ttl[1]

\* C33: at any time after any calls, get(k) returns the value of the most
\* recent set(k, v, ttl) if that entry has not since been deleted or cleared
\* and its ttl, when given, has not elapsed, and undefined otherwise; has(k)
\* returns true in exactly the first case.
C33_GetReturnsLatestLive ==
  \A key \in DOMAIN cache.latest :
    /\ GetReturn(key) = IF Live(key) THEN cache.latest[key][1].value ELSE None
    /\ HasReturn(key) <=> Live(key)

\* C34: at any time after any calls, size is the number of keys for which
\* has would return true, and delete(k) returns true exactly when has(k)
\* would return true.
C34_SizeCountsLiveKeys ==
  cache.latest # <<>> =>
    /\ size = Cardinality({key \in Keys : HasReturn(key)})
    /\ \A key \in Keys : DeleteReturn(key) <=> HasReturn(key)


\* The positions of the tool_use blocks of a response content.
ToolUsePositions(content) ==
  {p \in 1..Len(content) : isToolUseBlock(content[p])}

\* C35: the n-th model call of a run is sent 2(n - 1) + 1 turns: the
\* interpolated user turn, then for each earlier response the assistant turn
\* with the response as it came and a user turn that holds one tool-result
\* entry per tool_use block of that response, in block order and with the
\* block's id; and every call names the same model, system text and tools.
C35_TurnHistory ==
  \A n \in 1..Len(clientLog) :
    LET turns == clientLog[n].messages
    IN /\ Len(turns) = 2 * (n - 1) + 1
       /\ turns[1] = Message("user", interpolate(pi.config.user, Context(pi.input)))
       /\ \A j \in 1..(n - 1) :
            LET content == clientLog[j].content
                results == turns[2 * j + 1].content
                positions == ToolUsePositions(content)
            IN /\ turns[2 * j] = Message("assistant", content)
               /\ turns[2 * j + 1].role = "user"
               /\ Len(results) = Cardinality(positions)
               /\ \A p \in positions :
                    results[Cardinality({q \in positions : q <= p})].tool_use_id
                      = BlockId(j, p)
       /\ clientLog[n].model = clientLog[1].model
       /\ clientLog[n].system = clientLog[1].system
       /\ clientLog[n].tools = clientLog[1].tools

\* The third call of a run, after a response with two tool_use blocks
\* around a text block and a response with none.
C35_Witness ==
  /\ Len(clientLog) = 3
  /\ Len(clientLog[3].messages) = 5
  /\ clientLog[1].content = <<"text", "ghost", "lookup">>
  /\ Len(clientLog[3].messages[3].content) = 2
  /\ clientLog[3].messages[3].content[2].tool_use_id = BlockId(1, 3)
  /\ clientLog[2].content = <<"text">>
  /\ clientLog[3].messages[5].content = <<>>


\* The positions strictly between two positions of the event log whose
\* event is of one of the given types.
Between(k, e, types) == {x \in (k + 1)..(e - 1) : events[x][1] \in types}

\* C36: once the agent run has settled, every reflectionStart has been
\* followed by a reflectionEnd of the same agent with exactly one prompt
\* execution, and no other reflection event or agentRunEnd, between the two.
C36_ReflectionBracketed ==
  apc = "settled" =>
    \A k \in 1..Len(events) :
      events[k][1] = "reflectionStart" =>
        \E e \in (k + 1)..Len(events) :
          /\ events[e] = Event("reflectionEnd", events[k][2])
          /\ Between(k, e, {"reflectionStart", "reflectionEnd", "agentRunEnd"}) = {}
          /\ Cardinality(Between(k, e, {"promptInstanceStart"})) = 1
          /\ Cardinality(Between(k, e, {"promptInstanceEnd"})) = 1


\* C37: the tool events of a prompt execution come in pairs, one pair per
\* toolCalls record and in the order of the records: the toolCallStart and
\* then the toolCallEnd of the record's toolId, both with the executing
\* prompt's id as parentPromptId; the records follow the tool_use blocks of
\* the responses in block order, and the result that run returns holds all
\* of them.
C37_ToolCallsSequential ==
  LET toolEvents == EventsOf({"toolCallStart", "toolCallEnd"})
      requested == RequestedTools(clientLog)
  IN /\ Len(toolEvents) = 2 * Len(pi.toolCalls)
     /\ \A j \in 1..Len(pi.toolCalls) :
          /\ toolEvents[2 * j - 1] = <<"toolCallStart", pi.toolCalls[j].id, pi.id>>
          /\ toolEvents[2 * j] = <<"toolCallEnd", pi.toolCalls[j].id, pi.id>>
          /\ pi.toolCalls[j].parentPromptId = pi.id
          /\ \A i \in 1..(j - 1) : pi.toolCalls[i].id # pi.toolCalls[j].id
          /\ j <= Len(requested) /\ pi.toolCalls[j].toolName = requested[j]
     /\ (ppc = "settled" /\ presult.state = "resolved") =>
          presult.toolCalls = pi.toolCalls

\* A run that returned after a successful call, a call of an unknown tool
\* and a call whose handler threw.
C37_Witness ==
  /\ ppc = "settled"
  /\ presult.state = "resolved"
  /\ Len(presult.toolCalls) >= 3
  /\ \E j \in 1..Len(presult.toolCalls) : presult.toolCalls[j].error = HandlerError
  /\ \E j \in 1..Len(presult.toolCalls) : presult.toolCalls[j].error = UnknownTool
  /\ \E j \in 1..Len(presult.toolCalls) : presult.toolCalls[j].error = NoError


\* C38: against a client that answers tool_use on every call, with nothing
\* failing, the prompt execution never settles however many calls it has
\* made: it goes on as long as the client answers, the agent stays in its
\* first attempt of the first prompt, and its retry counters are never
\* touched.
C38_ToolLoopUnbounded ==
  client.endStops = {} =>
    /\ ppc # "settled"
    /\ apc \in {"start", "promptBegin", "attempt", "awaitPrompt"}
    /\ Len(execLog) <= 1
    /\ ag.attempts = 0 /\ ag.retryCount = 0
    /\ (apc = "awaitPrompt" /\ client.toolUses > 0) => ENABLED NextPrompt

\* The run is still in its tool loop after three calls, with maxRetries 0.
C38_Witness ==
  /\ client.endStops = {}
  /\ Len(clientLog) >= 3
  /\ ppc = "tools"
  /\ cfg.maxRetries = <<>>
  /\ Len(pi.toolCalls) >= 4



RECURSIVE TokensBefore(_)
TokensBefore(k) ==
  IF k = 0 THEN <<>>
  ELSE TokensBefore(k - 1)
         \o (IF pi.yielded[k][1] = "token" THEN pi.yielded[k][2] ELSE <<>>)

\* C40: every result item runStreaming yields, on completion and on failure
\* alike, has as content the concatenation in order of the token items
\* yielded before it.
C40_ResultIsTokensYielded ==
  \A k \in ResultItems : pi.yielded[k][2].content = TokensBefore(k)

\* A stream failed after two different tokens were yielded: the result
\* carries the error and both tokens' text in order.
C40_Witness ==
  /\ ppc = "settled"
  /\ Len(pi.yielded) = 3
  /\ pi.yielded[1] = TokenItem(<<"b", "c">>)
  /\ pi.yielded[2] = TokenItem(<<"a">>)
  /\ pi.yielded[3][1] = "result"
  /\ pi.yielded[3][2].error = ApiError
  /\ pi.yielded[3][2].content = <<"b", "c", "a">>

====
